---------------------------- MODULE Spec2Model ----------------------------
(***************************************************************************)
(* OVN BGPVPN service driver: the driver's lifecycle and topology          *)
(* handlers (ovn_driver.py), the OVN NB client that writes and clears the  *)
(* EVPN external_ids of a Logical_Switch (ovn_client.py) and the fixed     *)
(* EVPN key list (ovn_utils.py).                                           *)
(*                                                                         *)
(* Python values are modelled as follows.  A string that the code takes    *)
(* apart or builds (a route target, str(...), json.dumps(...)) is a        *)
(* sequence of one-character strings; a dict is a function whose DOMAIN is *)
(* the set of its keys; an optional value is None (the empty sequence) or  *)
(* Some(v) (a one-element sequence).                                       *)
(***************************************************************************)
EXTENDS Integers, Sequences, FiniteSets, TLC

\* ------------------------------------------------------------------------
\* Bounds of the model
\* ------------------------------------------------------------------------
\* events handled in one behaviour
MaxEvents == 5

\* events handled in one behaviour over two networks
MaxNetsEvents == 4

\* events and client calls in one behaviour that follows a transaction
MaxTxnEvents == 4

\* events in one behaviour in which handlers overlap
MaxRaceEvents == 5
MaxCodecUpdates == 1
MaxPortEvents == 4

\* the ids of the BGPVPNs, networks and routers that may exist
BgpvpnIds == {1, 2}
Networks == {1, 2}
Routers == {1, 2}

None == <<>>
Some(x) == <<x>>

\* ------------------------------------------------------------------------
\* Constants of networking_bgpvpn.neutron.services.common.constants
\* ------------------------------------------------------------------------
BGPVPN_L2 == "L2"
BGPVPN_L3 == "L3"
OVN_EVPN_TYPE_EXT_ID_KEY == "type"
OVN_EVPN_VNI_EXT_ID_KEY == "vni"
OVN_EVPN_AS_EXT_ID_KEY == "bgp_as"
OVN_EVPN_RT_EXT_ID_KEY == "route_targets"
OVN_EVPN_IRT_EXT_ID_KEY == "import_targets"
OVN_EVPN_ERT_EXT_ID_KEY == "export_targets"
OVN_EVPN_RD_EXT_ID_KEY == "route_distinguishers"
OVN_EVPN_LOCAL_PREF_EXT_ID_KEY == "local_pref"

\* a key list that leaves out the local preference
get_evpn_external_ids_keys_short ==
    { OVN_EVPN_TYPE_EXT_ID_KEY, OVN_EVPN_VNI_EXT_ID_KEY,
      OVN_EVPN_AS_EXT_ID_KEY, OVN_EVPN_RT_EXT_ID_KEY,
      OVN_EVPN_IRT_EXT_ID_KEY, OVN_EVPN_ERT_EXT_ID_KEY,
      OVN_EVPN_RD_EXT_ID_KEY }

\* ovn_utils.get_evpn_external_ids_keys
get_evpn_external_ids_keys ==
    { OVN_EVPN_TYPE_EXT_ID_KEY, OVN_EVPN_VNI_EXT_ID_KEY,
      OVN_EVPN_AS_EXT_ID_KEY, OVN_EVPN_RT_EXT_ID_KEY,
      OVN_EVPN_IRT_EXT_ID_KEY, OVN_EVPN_ERT_EXT_ID_KEY,
      OVN_EVPN_RD_EXT_ID_KEY, OVN_EVPN_LOCAL_PREF_EXT_ID_KEY }

\* ------------------------------------------------------------------------
\* Python built-ins used by the client
\* ------------------------------------------------------------------------
EmptyDict == [k \in {} |-> 0]

\* d[k] = v
DictSet(d, k, v) == [x \in (DOMAIN d) \cup {k} |-> IF x = k THEN v ELSE d[x]]

\* the dict d without the keys of ks
DictWithout(d, ks) == [x \in (DOMAIN d) \ ks |-> d[x]]

\* the dict d restricted to the keys of ks
DictOnly(d, ks) == [x \in (DOMAIN d) \cap ks |-> d[x]]

DigitChar(d) == <<"0", "1", "2", "3", "4", "5", "6", "7", "8", "9">>[d + 1]

RECURSIVE IntToStr(_)
IntToStr(n) == IF n < 10 THEN <<DigitChar(n)>>
               ELSE IntToStr(n \div 10) \o <<DigitChar(n % 10)>>

\* str(x) of an optional integer: str(None) is the text None
PyStr(x) == IF x = None THEN <<"N", "o", "n", "e">> ELSE IntToStr(x[1])

\* c in s
CharIn(c, s) == \E i \in 1..Len(s) : s[i] = c

\* s.split(c)[0]: the part of s before the first c (all of s without a c)
SplitFirst(s, c) ==
    IF CharIn(c, s)
    THEN LET i == CHOOSE j \in 1..Len(s) :
                      s[j] = c /\ \A m \in 1..(j - 1) : s[m] # c
         IN  SubSeq(s, 1, i - 1)
    ELSE s

\* json.dumps of one string: quoted, with the quote and the backslash escaped
RECURSIVE JsonEscape(_)
JsonEscape(s) ==
    IF s = <<>> THEN <<>>
    ELSE (IF Head(s) \in {"\"", "\\"} THEN <<"\\", Head(s)>> ELSE <<Head(s)>>)
         \o JsonEscape(Tail(s))

JsonString(s) == <<"\"">> \o JsonEscape(s) \o <<"\"">>

RECURSIVE JsonItems(_)
JsonItems(l) ==
    IF l = <<>> THEN <<>>
    ELSE IF Len(l) = 1 THEN JsonString(l[1])
    ELSE JsonString(l[1]) \o <<",", " ">> \o JsonItems(Tail(l))

\* json.dumps of a list of strings
JsonDumps(l) == <<"[">> \o JsonItems(l) \o <<"]">>

\* ------------------------------------------------------------------------
\* OVNClient._build_evpn_external_ids
\* ------------------------------------------------------------------------
\* an emission that tests the value written, and so skips a "0"
PutIf_truthy(cond, d, k, v) ==
    IF cond /\ v # <<"0">> THEN DictSet(d, k, v) ELSE d

\* if cond: d[k] = v
PutIf(cond, d, k, v) == IF cond THEN DictSet(d, k, v) ELSE d

\* a test that looks for ':' in any route target
FirstHasColon_any(route_targets) ==
    \E i \in 1..Len(route_targets) : CharIn(":", route_targets[i])

\* route_targets and ':' in route_targets[0]
FirstHasColon(route_targets) ==
    route_targets # <<>> /\ CharIn(":", Head(route_targets))

\* the statements of the method, the first innermost
build_evpn_external_ids(bgpvpn) ==
    PutIf(bgpvpn.local_pref # None,
      PutIf(bgpvpn.route_distinguishers # <<>>,
        PutIf(bgpvpn.export_targets # <<>>,
          PutIf(bgpvpn.import_targets # <<>>,
            PutIf(bgpvpn.route_targets # <<>>,
              PutIf(FirstHasColon(bgpvpn.route_targets),
                DictSet(
                  DictSet(EmptyDict, OVN_EVPN_TYPE_EXT_ID_KEY, bgpvpn.type),
                  OVN_EVPN_VNI_EXT_ID_KEY, PyStr(bgpvpn.vni)),
                OVN_EVPN_AS_EXT_ID_KEY,
                SplitFirst(Head(bgpvpn.route_targets), ":")),
              OVN_EVPN_RT_EXT_ID_KEY, JsonDumps(bgpvpn.route_targets)),
            OVN_EVPN_IRT_EXT_ID_KEY, JsonDumps(bgpvpn.import_targets)),
          OVN_EVPN_ERT_EXT_ID_KEY, JsonDumps(bgpvpn.export_targets)),
        OVN_EVPN_RD_EXT_ID_KEY, JsonDumps(bgpvpn.route_distinguishers)),
      OVN_EVPN_LOCAL_PREF_EXT_ID_KEY, PyStr(bgpvpn.local_pref))

\* ------------------------------------------------------------------------
\* State
\* ------------------------------------------------------------------------
VARIABLES
    bgpvpn_db,     \* the BGPVPN rows of the service plugin: id -> BGPVPN dict
    deleted,       \* ids of the BGPVPNs whose deletion has committed
    ports,         \* router-interface ports: <<device_id, network_id>>
    switches,      \* networks whose Logical_Switch neutron-<id> exists in OVN NB
    external_ids,  \* network -> external_ids of its Logical_Switch
    origin,        \* network -> EVPN key -> id of the BGPVPN the value was built from
    last,          \* the event handled last and how its handler ended
    events,        \* number of events handled so far
    txn,           \* the NB transaction a client call has open, or None
    pending        \* the handler that has checked and not yet cleared, or None

vars == <<bgpvpn_db, deleted, ports, switches, external_ids, origin, last,
          events, txn, pending>>

\* ------------------------------------------------------------------------
\* Inputs of the events
\* ------------------------------------------------------------------------
RT1 == <<"6", "5", ":", "1">>

NameInputs == {"a", "b"}
TypeInputs == {BGPVPN_L2, BGPVPN_L3}
VniInputs == {Some(50)}
RouteTargetsInputs == {<<>>, <<RT1>>}
LocalPrefInputs == {None}

\* requests that pass the precommit validation
ValidInputs ==
    [name : NameInputs, type : TypeInputs, vni : VniInputs,
     route_targets : RouteTargetsInputs, import_targets : {<<>>},
     export_targets : {<<>>}, route_distinguishers : {<<>>},
     local_pref : LocalPrefInputs]

\* requests with an unsupported type, without a vni, or with both
InvalidInputs ==
    [name : {"a"}, type : {"L1"}, vni : {None, Some(50)},
     route_targets : {<<RT1>>}, import_targets : {<<>>},
     export_targets : {<<>>}, route_distinguishers : {<<>>},
     local_pref : {None}]
    \cup
    [name : {"a"}, type : {BGPVPN_L3}, vni : {None, Some(0)},
     route_targets : {<<RT1>>}, import_targets : {<<>>},
     export_targets : {<<>>}, route_distinguishers : {<<>>},
     local_pref : {None}]

\* the attributes an update request carries
BgpvpnInputs == ValidInputs \cup InvalidInputs

\* the attributes a create request carries
CreateInputs == {a \in BgpvpnInputs : a.name = "a"}

\* the orders in which a query may list the networks
Orderings(S) ==
    {s \in [1..Cardinality(S) -> S] : \A i, j \in 1..Cardinality(S) :
                                          i # j => s[i] # s[j]}

\* the members of S in the order of ord
ListOf(S, ord) == SelectSeq(ord, LAMBDA x : x \in S)

RECURSIVE SortedList(_)
SortedList(S) ==
    IF S = {} THEN <<>>
    ELSE LET m == CHOOSE x \in S : \A y \in S : x <= y
         IN  <<m>> \o SortedList(S \ {m})

\* external_ids of a Logical_Switch as the OVN mechanism driver creates it
NeutronIds == [k \in {"neutron:network_name"} |-> "net"]

NoEvent ==
    [op |-> "none", request |-> None, id |-> 0, network_id |-> 0,
     router_id |-> 0, err |-> "", logged |-> "", lookups |-> 0, txns |-> 0,
     router_written |-> {}]

\* the driver is loaded over a topology of the networks nets and the routers
\* rtrs: any set of Logical_Switches and of router interfaces, and no BGPVPN
InitOver(nets, rtrs) ==
    /\ bgpvpn_db = EmptyDict
    /\ deleted = {}
    /\ ports \in SUBSET (rtrs \X nets)
    /\ switches \in SUBSET nets
    /\ external_ids = [n \in Networks |-> NeutronIds]
    /\ origin = [n \in Networks |-> EmptyDict]
    /\ last = NoEvent
    /\ events = 0
    /\ txn = None
    /\ pending = None

\* ------------------------------------------------------------------------
\* Service plugin and core plugin queries
\* ------------------------------------------------------------------------
\* driver_api.BGPVPNDriver.get_bgpvpn
get_bgpvpn(id) == bgpvpn_db[id]

\* driver_api.BGPVPNDriver.get_bgpvpns(filters={'networks': [network_id]})
get_bgpvpns_networks(network_id) ==
    SortedList({b \in DOMAIN bgpvpn_db : network_id \in bgpvpn_db[b].networks})

\* driver_api.BGPVPNDriver.get_bgpvpns(filters={'routers': [router_id]})
get_bgpvpns_routers(router_id) ==
    SortedList({b \in DOMAIN bgpvpn_db : router_id \in bgpvpn_db[b].routers})

\* plugin.get_ports(filters={'device_id': [router_id],
\*                           'device_owner': [DEVICE_OWNER_ROUTER_INTF]})
get_ports_device_id(router_id, ord) ==
    ListOf({n \in Networks : <<router_id, n>> \in ports}, ord)

\* utils.get_bgpvpn_differences(current_dict, old_dict)
get_bgpvpn_differences(current_dict, old_dict) ==
    [added_keys |-> (DOMAIN current_dict) \ (DOMAIN old_dict),
     removed_keys |-> (DOMAIN old_dict) \ (DOMAIN current_dict),
     changed_keys |-> {k \in (DOMAIN current_dict) \cap (DOMAIN old_dict) :
                           old_dict[k] # current_dict[k]}]

\* ------------------------------------------------------------------------
\* OVNClient: the Logical_Switch operations
\* A handler threads a context c through its calls: the external_ids so
\* far, the exception raised (err, "" while none), and the calls made.
\* ------------------------------------------------------------------------
Context ==
    [external_ids |-> external_ids, origin |-> origin, err |-> "",
     lookups |-> 0, txns |-> 0, router_written |-> {}]

TransactionError == "TransactionError"

\* OVNClient._get_logical_switch: the row, or None when ls_get fails
get_logical_switch(network_id) == network_id \in switches

\* d.update(e)
DictUpdate(d, e) ==
    [k \in (DOMAIN d) \cup (DOMAIN e) |-> IF k \in DOMAIN e THEN e[k] ELSE d[k]]

\* the keys of e, each mapped to id
DictMark(d, e, id) ==
    [k \in (DOMAIN d) \cup (DOMAIN e) |-> IF k \in DOMAIN e THEN id ELSE d[k]]

\* a client that raises when the Logical_Switch is not found
NotFound_raises(c) ==
    [c EXCEPT !.lookups = @ + 1, !.err = "LogicalSwitchNotFound"]

\* a call that found no Logical_Switch: logged, nothing done
NotFound(c) == [c EXCEPT !.lookups = @ + 1]

\* a client that logs an aborted transaction and returns
Aborted_quiet(c) == [c EXCEPT !.lookups = @ + 1, !.txns = @ + 1]

\* a call whose transaction aborted: logged and raised again
Aborted(c) ==
    [c EXCEPT !.lookups = @ + 1, !.txns = @ + 1, !.err = TransactionError]

\* a write that replaces the whole column by the map written
Written_replacing(c, network_id, evpn_external_ids, id) ==
    [c EXCEPT !.lookups = @ + 1,
              !.txns = @ + 1,
              !.external_ids[network_id] = evpn_external_ids,
              !.origin[network_id] = DictMark(@, evpn_external_ids, id)]

\* the transaction of update_logical_switch_evpn_config: one db_set per key
Written(c, network_id, evpn_external_ids, id) ==
    [c EXCEPT !.lookups = @ + 1,
              !.txns = @ + 1,
              !.external_ids[network_id] = DictUpdate(@, evpn_external_ids),
              !.origin[network_id] = DictMark(@, evpn_external_ids, id)]

\* a client whose clear removes one key per call
Cleared_one(c, network_id, evpn_keys) ==
    [c EXCEPT !.lookups = @ + 1,
              !.txns = @ + 1,
              !.external_ids[network_id] =
                  IF (DOMAIN @) \cap evpn_keys = {} THEN @
                  ELSE DictWithout(@, {CHOOSE k \in (DOMAIN @) \cap evpn_keys :
                                           TRUE})]

\* the transaction of clear_logical_switch_evpn_config: one db_remove with
\* if_exists per key
Cleared(c, network_id, evpn_keys) ==
    [c EXCEPT !.lookups = @ + 1,
              !.txns = @ + 1,
              !.external_ids[network_id] = DictWithout(@, evpn_keys),
              !.origin[network_id] = DictWithout(@, evpn_keys)]

\* OVNClient.update_logical_switch_evpn_config
\* abort: the networks whose transaction the NB database aborts
update_logical_switch_evpn_config(c, network_id, bgpvpn, abort) ==
    CASE c.err # "" -> c
      [] c.err = "" /\ ~get_logical_switch(network_id) -> NotFound(c)
      [] c.err = "" /\ get_logical_switch(network_id)
           /\ network_id \in abort -> Aborted(c)
      [] OTHER -> Written(c, network_id, build_evpn_external_ids(bgpvpn),
                          bgpvpn.id)

\* OVNClient.clear_logical_switch_evpn_config
clear_logical_switch_evpn_config(c, network_id, abort) ==
    CASE c.err # "" -> c
      [] c.err = "" /\ ~get_logical_switch(network_id) -> NotFound(c)
      [] c.err = "" /\ get_logical_switch(network_id)
           /\ network_id \in abort -> Aborted(c)
      [] OTHER -> Cleared(c, network_id, get_evpn_external_ids_keys)

\* ------------------------------------------------------------------------
\* OVNBGPVPNDriver: validation
\* ------------------------------------------------------------------------
BGPVPNTypeNotSupported == "BGPVPNTypeNotSupported"
VniRequiredError == "BGPVPNDriverError: OVN driver requires VNI to be specified"
RouterAssocTypeError == "BGPVPNDriverError: Router associations require L3 BGPVPN type"

\* a driver that accepts every type
validate_bgpvpn_type_any(bgpvpn) == ""

\* a driver that does not ask for a vni
validate_vni_required_never(bgpvpn) == ""

\* OVNBGPVPNDriver._validate_bgpvpn_type: the exception raised, "" if none
validate_bgpvpn_type(bgpvpn) ==
    IF bgpvpn.type \notin {BGPVPN_L2, BGPVPN_L3}
    THEN BGPVPNTypeNotSupported ELSE ""

\* OVNBGPVPNDriver._validate_vni_required: "not vni" holds of None and of 0
validate_vni_required(bgpvpn) ==
    IF bgpvpn.vni = None \/ bgpvpn.vni = Some(0)
    THEN VniRequiredError ELSE ""

\* the exception of the first statement that raises
FirstError(e1, e2) == IF e1 # "" THEN e1 ELSE e2

\* a precommit that accepts every BGPVPN
common_precommit_checks_none(bgpvpn) == ""

\* OVNBGPVPNDriver._common_precommit_checks
common_precommit_checks(bgpvpn) ==
    FirstError(validate_bgpvpn_type(bgpvpn), validate_vni_required(bgpvpn))

\* ------------------------------------------------------------------------
\* OVNBGPVPNDriver: helper methods
\* ------------------------------------------------------------------------
\* OVNBGPVPNDriver._get_router_bgpvpn: bgpvpns[0] if bgpvpns else None
FirstOrNone(bgpvpns) ==
    IF bgpvpns # <<>> THEN Some(get_bgpvpn(Head(bgpvpns))) ELSE None

get_router_bgpvpn(router_id) == FirstOrNone(get_bgpvpns_routers(router_id))

\* a check that never finds a direct association
network_has_direct_bgpvpn_never(network_id) == FALSE

\* OVNBGPVPNDriver._network_has_direct_bgpvpn
network_has_direct_bgpvpn(network_id) ==
    get_bgpvpns_networks(network_id) # <<>>

\* OVNBGPVPNDriver._network_has_router_bgpvpn
network_has_router_bgpvpn(network_id) ==
    \E router_id \in {r \in Routers : <<r, network_id>> \in ports} :
        get_router_bgpvpn(router_id) # None

\* OVNBGPVPNDriver._network_has_bgpvpn
network_has_bgpvpn(network_id) ==
    network_has_direct_bgpvpn(network_id)
        \/ network_has_router_bgpvpn(network_id)

\* c1 is c after a write onto network_id on behalf of a router: the network
\* is recorded when the transaction committed
RouterWritten(c, network_id, c1) ==
    IF c1.err = "" /\ c1.txns > c.txns
    THEN [c1 EXCEPT !.router_written = @ \cup {network_id}]
    ELSE c1

\* the loop of _update_router_evpn_config over router_ports
RECURSIVE update_router_ports(_, _, _, _)
update_router_ports(c, router_ports, bgpvpn, abort) ==
    IF router_ports = <<>> \/ c.err # "" THEN c
    ELSE update_router_ports(
             RouterWritten(c, Head(router_ports),
                 update_logical_switch_evpn_config(c, Head(router_ports),
                                                   bgpvpn, abort)),
             Tail(router_ports), bgpvpn, abort)

\* OVNBGPVPNDriver._update_router_evpn_config
update_router_evpn_config(c, router_id, bgpvpn, ord, abort) ==
    update_router_ports(c, get_ports_device_id(router_id, ord), bgpvpn, abort)

\* the loop of _clear_router_evpn_config over router_ports
RECURSIVE clear_router_ports(_, _, _)
clear_router_ports(c, router_ports, abort) ==
    IF router_ports = <<>> \/ c.err # "" THEN c
    ELSE clear_router_ports(
             IF ~network_has_direct_bgpvpn(Head(router_ports))
             THEN clear_logical_switch_evpn_config(c, Head(router_ports),
                                                   abort)
             ELSE c,
             Tail(router_ports), abort)

\* OVNBGPVPNDriver._clear_router_evpn_config
clear_router_evpn_config(c, router_id, ord, abort) ==
    clear_router_ports(c, get_ports_device_id(router_id, ord), abort)

\* ------------------------------------------------------------------------
\* OVNBGPVPNDriver: BGPVPN hooks
\* ------------------------------------------------------------------------
\* OVNBGPVPNDriver.create_bgpvpn_precommit
create_bgpvpn_precommit(bgpvpn) == common_precommit_checks(bgpvpn)

\* a postcommit that writes the new BGPVPN onto network 1
create_bgpvpn_postcommit_writes(c, bgpvpn) ==
    update_logical_switch_evpn_config(c, 1, bgpvpn, {})

\* OVNBGPVPNDriver.create_bgpvpn_postcommit: logs only
create_bgpvpn_postcommit(c, bgpvpn) == c

\* OVNBGPVPNDriver.update_bgpvpn_precommit
update_bgpvpn_precommit(old_bgpvpn, new_bgpvpn) ==
    common_precommit_checks(new_bgpvpn)

ATTRIBUTES_TO_IGNORE == {"name", "tenant_id", "project_id"}

\* for network_id in new_bgpvpn.get('networks', [])
RECURSIVE update_networks(_, _, _, _)
update_networks(c, networks, bgpvpn, abort) ==
    IF networks = <<>> \/ c.err # "" THEN c
    ELSE update_networks(
             update_logical_switch_evpn_config(c, Head(networks), bgpvpn, abort),
             Tail(networks), bgpvpn, abort)

\* for router_id in new_bgpvpn.get('routers', [])
RECURSIVE update_routers(_, _, _, _, _)
update_routers(c, routers, bgpvpn, ord, abort) ==
    IF routers = <<>> \/ c.err # "" THEN c
    ELSE update_routers(
             update_router_evpn_config(c, Head(routers), bgpvpn, ord, abort),
             Tail(routers), bgpvpn, ord, abort)

\* OVNBGPVPNDriver.update_bgpvpn_postcommit
moving_keys(d) == d.added_keys \cup d.removed_keys \cup d.changed_keys

\* a driver that resynchronises on every update, cosmetic or not
update_bgpvpn_postcommit_always(c, old_bgpvpn, new_bgpvpn, ord, abort) ==
    update_routers(
        update_networks(c, ListOf(new_bgpvpn.networks, ord), new_bgpvpn, abort),
        SortedList(new_bgpvpn.routers), new_bgpvpn, ord, abort)

update_bgpvpn_postcommit(c, old_bgpvpn, new_bgpvpn, ord, abort) ==
    IF moving_keys(get_bgpvpn_differences(new_bgpvpn, old_bgpvpn))
           \ ATTRIBUTES_TO_IGNORE = {}
    THEN c
    ELSE update_routers(
             update_networks(c, ListOf(new_bgpvpn.networks, ord),
                             new_bgpvpn, abort),
             SortedList(new_bgpvpn.routers), new_bgpvpn, ord, abort)

\* for network_id in bgpvpn.get('networks', [])
RECURSIVE clear_networks(_, _, _)
clear_networks(c, networks, abort) ==
    IF networks = <<>> \/ c.err # "" THEN c
    ELSE clear_networks(
             clear_logical_switch_evpn_config(c, Head(networks), abort),
             Tail(networks), abort)

\* for router_id in bgpvpn.get('routers', [])
RECURSIVE clear_routers(_, _, _, _)
clear_routers(c, routers, ord, abort) ==
    IF routers = <<>> \/ c.err # "" THEN c
    ELSE clear_routers(clear_router_evpn_config(c, Head(routers), ord, abort),
                       Tail(routers), ord, abort)

\* OVNBGPVPNDriver.delete_bgpvpn_precommit
delete_bgpvpn_precommit(c, bgpvpn, ord, abort) ==
    clear_routers(clear_networks(c, ListOf(bgpvpn.networks, ord), abort),
                  SortedList(bgpvpn.routers), ord, abort)

\* OVNBGPVPNDriver.delete_bgpvpn_postcommit: pass
delete_bgpvpn_postcommit(c, bgpvpn) == c

\* ------------------------------------------------------------------------
\* OVNBGPVPNDriver: association hooks
\* ------------------------------------------------------------------------
\* a postcommit that writes nothing
create_net_assoc_postcommit_none(c, net_assoc, abort) == c

\* OVNBGPVPNDriver.create_net_assoc_postcommit
create_net_assoc_postcommit(c, net_assoc, abort) ==
    update_logical_switch_evpn_config(c, net_assoc.network_id,
                                      get_bgpvpn(net_assoc.bgpvpn_id), abort)

\* a precommit that clears without asking for a router-derived BGPVPN
delete_net_assoc_precommit_always(c, net_assoc, abort) ==
    clear_logical_switch_evpn_config(c, net_assoc.network_id, abort)

\* OVNBGPVPNDriver.delete_net_assoc_precommit
delete_net_assoc_precommit(c, net_assoc, abort) ==
    IF ~network_has_router_bgpvpn(net_assoc.network_id)
    THEN clear_logical_switch_evpn_config(c, net_assoc.network_id, abort)
    ELSE c

\* OVNBGPVPNDriver.create_router_assoc_postcommit
create_router_assoc_postcommit(c, router_assoc, ord, abort) ==
    IF get_bgpvpn(router_assoc.bgpvpn_id).type # BGPVPN_L3
    THEN [c EXCEPT !.err = RouterAssocTypeError]
    ELSE update_router_evpn_config(c, router_assoc.router_id,
                                   get_bgpvpn(router_assoc.bgpvpn_id),
                                   ord, abort)

\* OVNBGPVPNDriver.update_router_assoc_postcommit
update_router_assoc_postcommit(c, router_assoc, ord, abort) ==
    update_router_evpn_config(c, router_assoc.router_id,
                              get_bgpvpn(router_assoc.bgpvpn_id), ord, abort)

\* OVNBGPVPNDriver.delete_router_assoc_precommit
delete_router_assoc_precommit(c, router_assoc, ord, abort) ==
    clear_router_evpn_config(c, router_assoc.router_id, ord, abort)

\* OVNBGPVPNDriver.create_port_assoc_postcommit: logs only
create_port_assoc_postcommit(c, port_assoc) == c

\* OVNBGPVPNDriver.update_port_assoc_postcommit: logs only
update_port_assoc_postcommit(c, old_port_assoc, port_assoc) == c

\* OVNBGPVPNDriver.delete_port_assoc_precommit: logs only
delete_port_assoc_precommit(c, port_assoc) == c

\* OVNBGPVPNDriver.delete_port_assoc_postcommit: pass
delete_port_assoc_postcommit(c, port_assoc) == c

\* ------------------------------------------------------------------------
\* OVNBGPVPNDriver: router interface callbacks
\* ------------------------------------------------------------------------
\* a callback that ignores the BGPVPN of the router
on_router_interface_created_never(c, router_id, network_id, abort) == c

\* OVNBGPVPNDriver._on_router_interface_created, the body of its try
on_router_interface_created(c, router_id, network_id, abort) ==
    IF get_router_bgpvpn(router_id) # None
    THEN RouterWritten(c, network_id,
             update_logical_switch_evpn_config(
                 c, network_id, Head(get_router_bgpvpn(router_id)), abort))
    ELSE c

\* OVNBGPVPNDriver._on_router_interface_deleted, the body of its try
on_router_interface_deleted(c, router_id, network_id, abort) ==
    IF ~network_has_bgpvpn(network_id)
    THEN clear_logical_switch_evpn_config(c, network_id, abort)
    ELSE c

\* ------------------------------------------------------------------------
\* Events.  The service plugin runs a precommit hook inside the database
\* transaction of the request (an exception rolls the request back) and a
\* postcommit hook after it has committed (an exception leaves it committed).
\* ------------------------------------------------------------------------
\* the networks whose transaction aborts in one event: the first abort ends
\* the handler, so one network at most
AbortInputs(nets) == {{}} \cup {{n} : n \in nets}

\* the listing order matters only to an event in which a transaction aborts
OrderInputs(nets, abort) ==
    IF abort = {} THEN {SortedList(nets)} ELSE Orderings(nets)

MakeBgpvpn(id, attrs, networks, routers) ==
    [id |-> id, name |-> attrs.name, type |-> attrs.type, vni |-> attrs.vni,
     route_targets |-> attrs.route_targets,
     import_targets |-> attrs.import_targets,
     export_targets |-> attrs.export_targets,
     route_distinguishers |-> attrs.route_distinguishers,
     local_pref |-> attrs.local_pref,
     networks |-> networks, routers |-> routers]

\* the record of an event whose handler ended in the context c: request is
\* the BGPVPN snapshot of a create or an update; a callback (logged) logs its
\* exception and returns
Handled(request, op, id, network_id, router_id, logged, c) ==
    [op |-> op, request |-> request, id |-> id, network_id |-> network_id,
     router_id |-> router_id,
     err |-> IF logged THEN "" ELSE c.err,
     logged |-> IF logged THEN c.err ELSE "",
     lookups |-> c.lookups, txns |-> c.txns,
     router_written |-> c.router_written]

\* the handler's context c becomes the state of the NB database
Commit(request, op, id, network_id, router_id, logged, c) ==
    /\ external_ids' = c.external_ids
    /\ origin' = c.origin
    /\ last' = Handled(request, op, id, network_id, router_id, logged, c)

\* the request is rolled back when its precommit hook raised
Raised(c, err) == [c EXCEPT !.err = err]

FreeIds(ids) == ids \ ((DOMAIN bgpvpn_db) \cup deleted)

\* ids are handed out in increasing order and never reused
NextId(ids) == CHOOSE b \in FreeIds(ids) : \A y \in FreeIds(ids) : b <= y

CreateBgpvpnEnds(bgpvpn, err) ==
    /\ bgpvpn_db' = IF err = "" THEN DictSet(bgpvpn_db, bgpvpn.id, bgpvpn)
                    ELSE bgpvpn_db
    /\ Commit(Some(bgpvpn), "create_bgpvpn", bgpvpn.id, 0, 0, FALSE,
              IF err # "" THEN Raised(Context, err)
              ELSE create_bgpvpn_postcommit(Context, bgpvpn))

\* POST /bgpvpns: precommit, the row, postcommit
CreateBgpvpn(id, attrs) ==
    /\ id \notin (DOMAIN bgpvpn_db) \cup deleted
    /\ CreateBgpvpnEnds(MakeBgpvpn(id, attrs, {}, {}),
                        create_bgpvpn_precommit(MakeBgpvpn(id, attrs, {}, {})))
    /\ UNCHANGED <<deleted, ports, switches>>

UpdateBgpvpnEnds(old_bgpvpn, new_bgpvpn, err, ord, abort) ==
    /\ bgpvpn_db' = IF err = ""
                    THEN DictSet(bgpvpn_db, new_bgpvpn.id, new_bgpvpn)
                    ELSE bgpvpn_db
    /\ Commit(Some(new_bgpvpn),
              IF err # "" THEN "update_bgpvpn_precommit"
              ELSE "update_bgpvpn_postcommit", new_bgpvpn.id, 0, 0, FALSE,
              IF err # "" THEN Raised(Context, err)
              ELSE update_bgpvpn_postcommit(Context, old_bgpvpn, new_bgpvpn,
                                            ord, abort))

UpdateBgpvpnBegins(old_bgpvpn, new_bgpvpn, ord, abort) ==
    UpdateBgpvpnEnds(old_bgpvpn, new_bgpvpn,
                     update_bgpvpn_precommit(old_bgpvpn, new_bgpvpn),
                     ord, abort)

\* PUT /bgpvpns/<id>: precommit, the row, postcommit
UpdateBgpvpn(id, attrs, ord, abort) ==
    /\ id \in DOMAIN bgpvpn_db
    /\ UpdateBgpvpnBegins(bgpvpn_db[id],
                          MakeBgpvpn(id, attrs, bgpvpn_db[id].networks,
                                     bgpvpn_db[id].routers),
                          ord, abort)
    /\ UNCHANGED <<deleted, ports, switches>>

DeleteBgpvpnEnds(id, c) ==
    /\ bgpvpn_db' = IF c.err = "" THEN DictWithout(bgpvpn_db, {id})
                    ELSE bgpvpn_db
    /\ deleted' = IF c.err = "" THEN deleted \cup {id} ELSE deleted
    /\ Commit(None, "delete_bgpvpn", id, 0, 0, FALSE,
              IF c.err = "" THEN delete_bgpvpn_postcommit(c, bgpvpn_db[id])
              ELSE c)

\* DELETE /bgpvpns/<id>: precommit, then the row and its associations go
DeleteBgpvpn(id, ord, abort) ==
    /\ id \in DOMAIN bgpvpn_db
    /\ DeleteBgpvpnEnds(id, delete_bgpvpn_precommit(Context, bgpvpn_db[id],
                                                    ord, abort))
    /\ UNCHANGED <<ports, switches>>

\* POST /bgpvpns/<id>/network_associations: the row, postcommit
CreateNetAssoc(id, network_id, abort) ==
    /\ id \in DOMAIN bgpvpn_db
    /\ network_id \notin bgpvpn_db[id].networks
    /\ bgpvpn_db' = [bgpvpn_db EXCEPT ![id].networks = @ \cup {network_id}]
    /\ Commit(None, "create_net_assoc", id, network_id, 0, FALSE,
              create_net_assoc_postcommit(
                  Context, [bgpvpn_id |-> id, network_id |-> network_id],
                  abort))
    /\ UNCHANGED <<deleted, ports, switches>>

DeleteNetAssocEnds(id, network_id, c) ==
    /\ bgpvpn_db' = IF c.err = ""
                    THEN [bgpvpn_db EXCEPT ![id].networks = @ \ {network_id}]
                    ELSE bgpvpn_db
    /\ Commit(None, "delete_net_assoc", id, network_id, 0, FALSE, c)

\* DELETE /bgpvpns/<id>/network_associations/<assoc>: precommit, then the row
\* goes
DeleteNetAssoc(id, network_id, abort) ==
    /\ id \in DOMAIN bgpvpn_db
    /\ network_id \in bgpvpn_db[id].networks
    /\ DeleteNetAssocEnds(id, network_id,
           delete_net_assoc_precommit(
               Context, [bgpvpn_id |-> id, network_id |-> network_id], abort))
    /\ UNCHANGED <<deleted, ports, switches>>

\* POST /bgpvpns/<id>/router_associations: the row, postcommit
CreateRouterAssoc(id, router_id, ord, abort) ==
    /\ id \in DOMAIN bgpvpn_db
    /\ router_id \notin bgpvpn_db[id].routers
    /\ bgpvpn_db' = [bgpvpn_db EXCEPT ![id].routers = @ \cup {router_id}]
    /\ Commit(None, "create_router_assoc", id, 0, router_id, FALSE,
              create_router_assoc_postcommit(
                  Context, [bgpvpn_id |-> id, router_id |-> router_id],
                  ord, abort))
    /\ UNCHANGED <<deleted, ports, switches>>

\* PUT /bgpvpns/<id>/router_associations/<assoc>: postcommit
UpdateRouterAssoc(id, router_id, ord, abort) ==
    /\ id \in DOMAIN bgpvpn_db
    /\ router_id \in bgpvpn_db[id].routers
    /\ Commit(None, "update_router_assoc", id, 0, router_id, FALSE,
              update_router_assoc_postcommit(
                  Context, [bgpvpn_id |-> id, router_id |-> router_id],
                  ord, abort))
    /\ UNCHANGED <<bgpvpn_db, deleted, ports, switches>>

DeleteRouterAssocEnds(id, router_id, c) ==
    /\ bgpvpn_db' = IF c.err = ""
                    THEN [bgpvpn_db EXCEPT ![id].routers = @ \ {router_id}]
                    ELSE bgpvpn_db
    /\ Commit(None, "delete_router_assoc", id, 0, router_id, FALSE, c)

\* DELETE /bgpvpns/<id>/router_associations/<assoc>: precommit, then the row
\* goes
DeleteRouterAssoc(id, router_id, ord, abort) ==
    /\ id \in DOMAIN bgpvpn_db
    /\ router_id \in bgpvpn_db[id].routers
    /\ DeleteRouterAssocEnds(id, router_id,
           delete_router_assoc_precommit(
               Context, [bgpvpn_id |-> id, router_id |-> router_id],
               ord, abort))
    /\ UNCHANGED <<deleted, ports, switches>>

\* ROUTER_INTERFACE AFTER_CREATE: the port exists when the callback runs;
\* the callback logs and swallows every exception
AttachInterface(router_id, network_id, abort) ==
    /\ <<router_id, network_id>> \notin ports
    /\ ports' = ports \cup {<<router_id, network_id>>}
    /\ Commit(None, "router_interface_created", 0, network_id, router_id, TRUE,
              on_router_interface_created(Context, router_id, network_id,
                                          abort))
    /\ UNCHANGED <<bgpvpn_db, deleted, switches>>

\* ROUTER_INTERFACE BEFORE_DELETE: the port still exists when the callback
\* runs and is removed after it
DetachInterface(router_id, network_id, abort) ==
    /\ <<router_id, network_id>> \in ports
    /\ Commit(None, "router_interface_deleted", 0, network_id, router_id, TRUE,
              on_router_interface_deleted(Context, router_id, network_id,
                                          abort))
    /\ ports' = ports \ {<<router_id, network_id>>}
    /\ UNCHANGED <<bgpvpn_db, deleted, switches>>

\* POST, PUT, DELETE /bgpvpns/<id>/port_associations: the hooks of the
\* request; the association rows are kept by the service plugin and read by
\* no hook
PortAssoc(op, id, port_id) ==
    /\ id \in DOMAIN bgpvpn_db
    /\ Commit(None, op, id, 0, 0, FALSE,
              CASE op = "create_port_assoc" ->
                       create_port_assoc_postcommit(
                           Context, [bgpvpn_id |-> id, port_id |-> port_id])
                [] op = "update_port_assoc" ->
                       update_port_assoc_postcommit(
                           Context, [bgpvpn_id |-> id, port_id |-> port_id],
                           [bgpvpn_id |-> id, port_id |-> port_id])
                [] op = "delete_port_assoc" ->
                       delete_port_assoc_postcommit(
                           delete_port_assoc_precommit(
                               Context,
                               [bgpvpn_id |-> id, port_id |-> port_id]),
                           [bgpvpn_id |-> id, port_id |-> port_id]))
    /\ UNCHANGED <<bgpvpn_db, deleted, ports, switches>>

\* ML2/OVN creates the Logical_Switch of a network
CreateSwitch(network_id) ==
    /\ network_id \notin switches
    /\ switches' = switches \cup {network_id}
    /\ external_ids' = [external_ids EXCEPT ![network_id] = NeutronIds]
    /\ last' = [NoEvent EXCEPT !.op = "create_switch",
                               !.network_id = network_id]
    /\ UNCHANGED <<bgpvpn_db, deleted, ports, origin>>

\* one event about the BGPVPNs ids, the networks nets and the routers rtrs
StepOver(ids, nets, rtrs) ==
    \/ \E attrs \in CreateInputs :
           FreeIds(ids) # {} /\ CreateBgpvpn(NextId(ids), attrs)
    \/ \E id \in ids, attrs \in BgpvpnInputs,
          abort \in AbortInputs(nets) :
          \E ord \in OrderInputs(nets, abort) :
           UpdateBgpvpn(id, attrs, ord, abort)
    \/ \E id \in ids, abort \in AbortInputs(nets) :
          \E ord \in OrderInputs(nets, abort) :
           DeleteBgpvpn(id, ord, abort)
    \/ \E id \in ids, n \in nets, abort \in AbortInputs(nets) :
           CreateNetAssoc(id, n, abort)
    \/ \E id \in ids, n \in nets, abort \in AbortInputs(nets) :
           DeleteNetAssoc(id, n, abort)
    \/ \E id \in ids, r \in rtrs,
          abort \in AbortInputs(nets) :
          \E ord \in OrderInputs(nets, abort) :
           CreateRouterAssoc(id, r, ord, abort)
    \/ \E id \in ids, r \in rtrs,
          abort \in AbortInputs(nets) :
          \E ord \in OrderInputs(nets, abort) :
           UpdateRouterAssoc(id, r, ord, abort)
    \/ \E id \in ids, r \in rtrs,
          abort \in AbortInputs(nets) :
          \E ord \in OrderInputs(nets, abort) :
           DeleteRouterAssoc(id, r, ord, abort)
    \/ \E r \in rtrs, n \in nets, abort \in AbortInputs(nets) :
           AttachInterface(r, n, abort)
    \/ \E r \in rtrs, n \in nets, abort \in AbortInputs(nets) :
           DetachInterface(r, n, abort)
    \/ \E n \in nets : CreateSwitch(n)

\* Spec: two BGPVPNs over one network and one router
Init == InitOver({1}, {1})

Next ==
    /\ events < MaxEvents
    /\ events' = events + 1
    /\ StepOver(BgpvpnIds, {1}, {1})
    /\ UNCHANGED <<txn, pending>>

Spec == Init /\ [][Next]_vars

\* ------------------------------------------------------------------------
\* Properties
\* ------------------------------------------------------------------------
\* the EVPN part of the external_ids of a network's Logical_Switch
Evpn(network_id) ==
    DictOnly(external_ids[network_id], get_evpn_external_ids_keys)

\* the BGPVPNs with a network association to network_id
DirectBgpvpns(network_id) ==
    {b \in DOMAIN bgpvpn_db : network_id \in bgpvpn_db[b].networks}

\* the BGPVPNs associated with a router that has an interface on network_id
RouterBgpvpns(network_id) ==
    {b \in DOMAIN bgpvpn_db :
        \E r \in bgpvpn_db[b].routers : <<r, network_id>> \in ports}

\* those of them that a router association may name
L3RouterBgpvpns(network_id) ==
    {b \in RouterBgpvpns(network_id) : bgpvpn_db[b].type = BGPVPN_L3}

DeleteOps ==
    {"delete_bgpvpn", "delete_net_assoc", "delete_router_assoc",
     "router_interface_deleted"}

\* C1: direct association wins: a write made on behalf of a router (router
\* association create or update, update of a router-associated BGPVPN,
\* router-interface attach) lands only on a network without a direct
\* association to another BGPVPN.
C1_RouterWriteOnlyWithoutDirect ==
    \A n \in last.router_written :
        \A a \in DirectBgpvpns(n) : a = origin[n][OVN_EVPN_TYPE_EXT_ID_KEY]

\* C2: when the network association of BGPVPN A to a network is deleted and
\* the network is still reachable through a router of another BGPVPN B, the
\* EVPN metadata of the network is build(B) afterwards.
C2_DeleteNetAssocLeavesRouterConfig ==
    (/\ last.op = "delete_net_assoc"
     /\ last.err = ""
     /\ DOMAIN Evpn(last.network_id) # {}
     /\ DirectBgpvpns(last.network_id) = {})
    => \A b \in L3RouterBgpvpns(last.network_id) \ {last.id} :
           Evpn(last.network_id) = build_evpn_external_ids(bgpvpn_db[b])

\* C3: after the router-interface detach of a network whose only BGPVPN path
\* was that router, the network holds none of the EVPN keys.
C3_DetachClearsLastPath ==
    (/\ last.op = "router_interface_deleted"
     /\ last.logged = ""
     /\ DirectBgpvpns(last.network_id) = {}
     /\ RouterBgpvpns(last.network_id) = {})
    => DOMAIN Evpn(last.network_id) = {}

\* C4: fail-closed deletion: once the deletion of a BGPVPN has committed, no
\* network holds an EVPN key written from that BGPVPN.
C4_NoMetadataOfDeletedBgpvpn ==
    \A n \in Networks : \A k \in DOMAIN origin[n] : origin[n][k] \notin deleted

\* C5: no deletion handler leaves a network that still has an effective
\* BGPVPN (a direct association, or a connected router with a BGPVPN) without
\* its EVPN keys.
C5_NoClearWhileOtherSource ==
    [][(last'.op \in DeleteOps /\ last'.err = "" /\ last'.logged = "")
       => \A n \in Networks :
              (/\ Cardinality(DirectBgpvpns(n)) <= 1
               /\ DOMAIN Evpn(n) # {}
               /\ (DOMAIN Evpn(n))' = {})
              => (DirectBgpvpns(n) \cup L3RouterBgpvpns(n))' = {}]_vars

\* C6: after a BGPVPN update postcommit with a non-cosmetic change, every
\* network of the BGPVPN and every network connected to one of its routers
\* holds exactly build(new) as its EVPN metadata.
C6_UpdateWritesExactlyBuild ==
    (/\ last.op = "update_bgpvpn_postcommit"
     /\ last.err = ""
     /\ last.lookups > 0)
    => \A n \in switches :
           (n \in bgpvpn_db[last.id].networks
               \/ \E r \in bgpvpn_db[last.id].routers : <<r, n>> \in ports)
           => Evpn(n) = build_evpn_external_ids(bgpvpn_db[last.id])

\* C7: a BGPVPN update postcommit whose added, removed and changed keys,
\* minus name, tenant_id and project_id, are none makes no call to the NB
\* database (no lookup, no transaction) and changes no external_ids.
C7_CosmeticUpdateWritesNothing ==
    [][(/\ last'.op = "update_bgpvpn_postcommit"
        /\ moving_keys(get_bgpvpn_differences(last'.request[1],
                                              bgpvpn_db[last'.id]))
               \subseteq {"name", "tenant_id", "project_id"})
       => /\ last'.lookups = 0
          /\ last'.txns = 0
          /\ last'.err = ""
          /\ external_ids' = external_ids
          /\ origin' = origin]_vars

\* a renamed BGPVPN that has a network association and a router association
\* whose networks hold its metadata
C7_Witness ==
    /\ last.op = "update_bgpvpn_postcommit"
    /\ last.lookups = 0
    /\ bgpvpn_db[last.id].name = "b"
    /\ \E n \in bgpvpn_db[last.id].networks : DOMAIN Evpn(n) # {}
    /\ \E r \in bgpvpn_db[last.id].routers, n \in Networks : <<r, n>> \in ports

\* C8: create precommit and update precommit raise BGPVPNTypeNotSupported for
\* every type outside L2 and L3, before any call to the NB database, and
\* neither the BGPVPN rows nor the external_ids change.
C8_UnsupportedTypeRejected ==
    [][(/\ last'.op \in {"create_bgpvpn", "update_bgpvpn_precommit",
                         "update_bgpvpn_postcommit"}
        /\ last'.request[1].type \notin {"L2", "L3"})
       => /\ last'.err = BGPVPNTypeNotSupported
          /\ last'.op # "update_bgpvpn_postcommit"
          /\ last'.lookups = 0
          /\ last'.txns = 0
          /\ bgpvpn_db' = bgpvpn_db
          /\ external_ids' = external_ids]_vars

\* an update to an unsupported type was rejected while the BGPVPN's network
\* holds metadata
C8_Witness ==
    /\ last.op = "update_bgpvpn_precommit"
    /\ last.err = BGPVPNTypeNotSupported
    /\ \E n \in bgpvpn_db[last.id].networks : DOMAIN Evpn(n) # {}

\* C9: create precommit and update precommit raise the vni-required error for
\* every snapshot without a vni (the unsupported-type error when the type is
\* unsupported as well: the type is checked first), make no call to the NB
\* database, and so no BGPVPN row is ever without a vni.
C9_MissingVniRejected ==
    [][/\ (/\ last'.op \in {"create_bgpvpn", "update_bgpvpn_precommit",
                            "update_bgpvpn_postcommit"}
           /\ last'.request[1].vni = None)
          => /\ last'.err = IF last'.request[1].type \in {"L2", "L3"}
                            THEN VniRequiredError
                            ELSE BGPVPNTypeNotSupported
             /\ last'.op # "update_bgpvpn_postcommit"
             /\ last'.lookups = 0
             /\ last'.txns = 0
             /\ bgpvpn_db' = bgpvpn_db
             /\ external_ids' = external_ids
       /\ \A b \in DOMAIN bgpvpn_db' : bgpvpn_db'[b].vni # None]_vars

\* an update without a vni was rejected for a BGPVPN that is associated with
\* a network and has a vni
C9_Witness ==
    /\ last.op = "update_bgpvpn_precommit"
    /\ last.err = VniRequiredError
    /\ bgpvpn_db[last.id].networks # {}
    /\ bgpvpn_db[last.id].vni # None

\* C10: a router association created against a BGPVPN that is not L3 fails
\* and blocks the transaction: afterwards the association does not exist and
\* no network of the router has been written.
C10_RouterAssocNeedsL3 ==
    (last.op = "create_router_assoc" /\ last.err = RouterAssocTypeError)
    => /\ last.router_id \notin bgpvpn_db[last.id].routers
       /\ last.txns = 0

\* C11: whenever a write or clear transaction aborts inside a handler, the
\* router-interface callbacks included, the exception reaches the handler's
\* caller: no handler logs it and returns.
C11_TransactionErrorReraised ==
    \A e \in {last.err, last.logged} :
        e = TransactionError => last.err = TransactionError

\* SpecNets: one BGPVPN over two networks and one router
InitNets == InitOver({1, 2}, {1})

NextNets ==
    /\ events < MaxNetsEvents
    /\ events' = events + 1
    /\ StepOver({1}, {1, 2}, {1})
    /\ UNCHANGED <<txn, pending>>

SpecNets == InitNets /\ [][NextNets]_vars

\* the router-interface ports of the routers of bgpvpn
RouterPorts(bgpvpn) == {p \in ports : p[1] \in bgpvpn.routers}

\* every key of build(bgpvpn) is in the external_ids ext with its value
HoldsBuild(ext, bgpvpn) ==
    \A k \in DOMAIN build_evpn_external_ids(bgpvpn) :
        k \in DOMAIN ext /\ ext[k] = build_evpn_external_ids(bgpvpn)[k]

\* C12: a write or clear for a network whose Logical_Switch does not exist
\* opens no transaction, changes no external_ids and raises nothing, and the
\* handler goes on with its remaining networks: an update or a delete of a
\* BGPVPN in which no transaction aborts looks up every target, ends without
\* an exception and has written (cleared) every network that has a switch.
C12_MissingSwitchTolerated ==
    [][/\ \A n \in Networks \ switches' : external_ids'[n] = external_ids[n]
       /\ last'.txns <= last'.lookups
       /\ (switches' = {} => last'.txns = 0)
       /\ (/\ last'.op = "update_bgpvpn_postcommit"
           /\ last'.lookups > 0
           /\ last'.err # TransactionError)
          => /\ last'.err = ""
             /\ last'.lookups =
                    Cardinality(bgpvpn_db'[last'.id].networks)
                        + Cardinality(RouterPorts(bgpvpn_db'[last'.id]))
             /\ \A n \in switches \cap bgpvpn_db'[last'.id].networks :
                    HoldsBuild(external_ids'[n], bgpvpn_db'[last'.id])
       /\ (last'.op = "delete_bgpvpn" /\ last'.err # TransactionError)
          => /\ last'.err = ""
             /\ last'.id \notin DOMAIN bgpvpn_db'
             /\ last'.lookups >= Cardinality(bgpvpn_db[last'.id].networks)
             /\ \A n \in switches \cap bgpvpn_db[last'.id].networks :
                    DOMAIN external_ids'[n] \cap get_evpn_external_ids_keys
                        = {}]_vars

\* an update wrote network 2 after it had found no Logical_Switch for
\* network 1
C12_Witness ==
    /\ last.op = "update_bgpvpn_postcommit"
    /\ last.err = ""
    /\ bgpvpn_db[last.id].networks = {1, 2}
    /\ switches = {2}
    /\ last.lookups = 2
    /\ last.txns = 1
    /\ HoldsBuild(external_ids[2], bgpvpn_db[last.id])
    /\ DOMAIN external_ids[1] \cap get_evpn_external_ids_keys = {}

\* ------------------------------------------------------------------------
\* One client call followed command by command:
\*     with self._nb_idl.transaction(check_error=True) as txn:
\*         for key ...: txn.add(...)
\* The commands are queued by txn.add and executed together when the with
\* block is left; the NB database applies all of them or raises.
\* ------------------------------------------------------------------------
\* get_evpn_external_ids_keys() as the list it is; _build_evpn_external_ids
\* inserts its keys in the same order
EvpnKeyList ==
    << OVN_EVPN_TYPE_EXT_ID_KEY, OVN_EVPN_VNI_EXT_ID_KEY,
       OVN_EVPN_AS_EXT_ID_KEY, OVN_EVPN_RT_EXT_ID_KEY,
       OVN_EVPN_IRT_EXT_ID_KEY, OVN_EVPN_ERT_EXT_ID_KEY,
       OVN_EVPN_RD_EXT_ID_KEY, OVN_EVPN_LOCAL_PREF_EXT_ID_KEY >>

\* the keys of the dict d in insertion order
KeysOf(d) == SelectSeq(EvpnKeyList, LAMBDA k : k \in DOMAIN d)

\* db_set('Logical_Switch', ls.uuid, ('external_ids', {key: value})) for
\* key, value in evpn_external_ids.items()
SetCommands(evpn_external_ids) ==
    [i \in 1..Len(KeysOf(evpn_external_ids)) |->
        [cmd |-> "db_set", key |-> KeysOf(evpn_external_ids)[i],
         value |-> evpn_external_ids[KeysOf(evpn_external_ids)[i]]]]

\* db_remove('Logical_Switch', ls.uuid, 'external_ids', key, if_exists=True)
\* for key in evpn_keys
RemoveCommands ==
    [i \in 1..Len(EvpnKeyList) |->
        [cmd |-> "db_remove", key |-> EvpnKeyList[i], value |-> ""]]

\* the NB database executes one command on the external_ids ext
Execute(ext, command) ==
    IF command.cmd = "db_set"
    THEN DictSet(ext, command.key, command.value)
    ELSE DictWithout(ext, {command.key})

RECURSIVE ExecuteAll(_, _)
ExecuteAll(ext, commands) ==
    IF commands = <<>> THEN ext
    ELSE ExecuteAll(Execute(ext, Head(commands)), Tail(commands))

\* the origin of the keys after the same commands
RECURSIVE MarkAll(_, _, _)
MarkAll(org, commands, id) ==
    IF commands = <<>> THEN org
    ELSE MarkAll(IF Head(commands).cmd = "db_set"
                 THEN DictSet(org, Head(commands).key, id)
                 ELSE DictWithout(org, {Head(commands).key}),
                 Tail(commands), id)

\* update_logical_switch_evpn_config up to "with ... as txn"
TxnBeginWrite(network_id, id) ==
    /\ txn = None
    /\ id \in DOMAIN bgpvpn_db
    /\ network_id \in bgpvpn_db[id].networks
    /\ get_logical_switch(network_id)
    /\ txn' = Some([op |-> "write", network_id |-> network_id, id |-> id,
                    todo |-> SetCommands(
                                 build_evpn_external_ids(get_bgpvpn(id))),
                    added |-> <<>>])
    /\ UNCHANGED <<bgpvpn_db, deleted, ports, switches, external_ids, origin,
                   last, pending>>

\* clear_logical_switch_evpn_config up to "with ... as txn"
TxnBeginClear(network_id) ==
    /\ txn = None
    /\ \E id \in DOMAIN bgpvpn_db : network_id \in bgpvpn_db[id].networks
    /\ get_logical_switch(network_id)
    /\ txn' = Some([op |-> "clear", network_id |-> network_id, id |-> 0,
                    todo |-> RemoveCommands, added |-> <<>>])
    /\ UNCHANGED <<bgpvpn_db, deleted, ports, switches, external_ids, origin,
                   last, pending>>

\* a client whose commands are executed one by one as they are added
TxnAdd_executes ==
    /\ txn # None
    /\ txn[1].todo # <<>>
    /\ txn' = Some([txn[1] EXCEPT !.todo = Tail(@)])
    /\ external_ids' =
           [external_ids EXCEPT ![txn[1].network_id] =
                Execute(@, Head(txn[1].todo))]
    /\ UNCHANGED <<bgpvpn_db, deleted, ports, switches, origin, last, events,
                   pending>>

\* txn.add(...): the command is queued
TxnAdd ==
    /\ txn # None
    /\ txn[1].todo # <<>>
    /\ txn' = Some([txn[1] EXCEPT !.todo = Tail(@),
                                  !.added = Append(@, Head(txn[1].todo))])
    /\ UNCHANGED <<bgpvpn_db, deleted, ports, switches, external_ids, origin,
                   last, events, pending>>

\* the with block is left and the transaction commits
TxnCommit ==
    /\ txn # None
    /\ txn[1].todo = <<>>
    /\ external_ids' =
           [external_ids EXCEPT ![txn[1].network_id] =
                ExecuteAll(@, txn[1].added)]
    /\ origin' =
           [origin EXCEPT ![txn[1].network_id] =
                MarkAll(@, txn[1].added, txn[1].id)]
    /\ last' = [NoEvent EXCEPT !.op = txn[1].op, !.id = txn[1].id,
                               !.network_id = txn[1].network_id,
                               !.lookups = 1, !.txns = 1]
    /\ txn' = None
    /\ UNCHANGED <<bgpvpn_db, deleted, ports, switches, events, pending>>

\* the with block is left and the transaction aborts: logged and raised
TxnAbort ==
    /\ txn # None
    /\ txn[1].todo = <<>>
    /\ last' = [NoEvent EXCEPT !.op = txn[1].op, !.id = txn[1].id,
                               !.network_id = txn[1].network_id,
                               !.lookups = 1, !.txns = 1,
                               !.err = TransactionError]
    /\ txn' = None
    /\ UNCHANGED <<bgpvpn_db, deleted, ports, switches, external_ids, origin,
                   events, pending>>

\* SpecTxn: one BGPVPN, one network, one router; the events, and client
\* calls followed command by command
InitTxn == InitOver({1}, {1})

NextTxn ==
    \/ /\ events < MaxTxnEvents
       /\ events' = events + 1
       /\ txn = None
       /\ StepOver({1}, {1}, {1})
       /\ UNCHANGED <<txn, pending>>
    \/ /\ events < MaxTxnEvents
       /\ events' = events + 1
       /\ TxnBeginWrite(1, 1)
    \/ /\ events < MaxTxnEvents
       /\ events' = events + 1
       /\ TxnBeginClear(1)
    \/ TxnAdd
    \/ TxnCommit
    \/ TxnAbort

SpecTxn == InitTxn /\ [][NextTxn]_vars

\* C13: a write or a clear is one transaction on one Logical_Switch and is
\* all-or-nothing: while the transaction is open the external_ids are what
\* they were, a commit applies every db_set (every db_remove) of the call to
\* that switch only, and an abort applies none.
C13_TransactionAllOrNothing ==
    [][/\ txn' # None => external_ids' = external_ids
       /\ (txn # None /\ txn' = None)
          => /\ \A n \in Networks \ {txn[1].network_id} :
                    external_ids'[n] = external_ids[n]
             /\ last'.txns = 1
             /\ IF last'.err # "" THEN external_ids' = external_ids
                ELSE IF txn[1].op = "write"
                THEN external_ids'[txn[1].network_id] =
                         DictUpdate(external_ids[txn[1].network_id],
                                    build_evpn_external_ids(
                                        get_bgpvpn(txn[1].id)))
                ELSE external_ids'[txn[1].network_id] =
                         DictWithout(external_ids[txn[1].network_id],
                                     get_evpn_external_ids_keys)]_vars

\* a transaction is open with two commands queued out of more, on a switch
\* whose external_ids they would change
C13_Witness ==
    /\ txn # None
    /\ Len(txn[1].added) = 2
    /\ txn[1].todo # <<>>
    /\ ExecuteAll(external_ids[txn[1].network_id], txn[1].added)
           # external_ids[txn[1].network_id]

\* ------------------------------------------------------------------------
\* Overlapping handlers.  A handler that asks the plugins whether a network
\* still has a BGPVPN and then clears it runs in two steps, and the handlers
\* that write (create_net_assoc_postcommit, _on_router_interface_created)
\* may run between them: the driver takes no lock.
\* ------------------------------------------------------------------------
\* the networks a handler decided to clear
ToClear(cond, network_id) == IF cond THEN <<network_id>> ELSE <<>>

\* delete_net_assoc_precommit up to its if
DeleteNetAssocChecks(id, network_id) ==
    /\ pending = None
    /\ id \in DOMAIN bgpvpn_db
    /\ network_id \in bgpvpn_db[id].networks
    /\ pending' = Some([op |-> "delete_net_assoc", id |-> id,
                        network_id |-> network_id, router_id |-> 0,
                        clear |-> ToClear(
                            ~network_has_router_bgpvpn(network_id),
                            network_id)])
    /\ UNCHANGED <<bgpvpn_db, deleted, ports, switches, external_ids, origin,
                   last, txn>>

\* delete_router_assoc_precommit up to the if of _clear_router_evpn_config
DeleteRouterAssocChecks(id, router_id, network_id) ==
    /\ pending = None
    /\ id \in DOMAIN bgpvpn_db
    /\ router_id \in bgpvpn_db[id].routers
    /\ get_ports_device_id(router_id, SortedList(Networks)) = <<network_id>>
    /\ pending' = Some([op |-> "delete_router_assoc", id |-> id,
                        network_id |-> network_id, router_id |-> router_id,
                        clear |-> ToClear(
                            ~network_has_direct_bgpvpn(network_id),
                            network_id)])
    /\ UNCHANGED <<bgpvpn_db, deleted, ports, switches, external_ids, origin,
                   last, txn>>

\* _on_router_interface_deleted up to its if
DetachInterfaceChecks(router_id, network_id) ==
    /\ pending = None
    /\ <<router_id, network_id>> \in ports
    /\ pending' = Some([op |-> "router_interface_deleted", id |-> 0,
                        network_id |-> network_id, router_id |-> router_id,
                        clear |-> ToClear(~network_has_bgpvpn(network_id),
                                          network_id)])
    /\ UNCHANGED <<bgpvpn_db, deleted, ports, switches, external_ids, origin,
                   last, txn>>

\* the rest of the handler: the clear it decided on, then the request
\* completes
PendingActs ==
    /\ pending # None
    /\ bgpvpn_db' =
           CASE pending[1].op = "delete_net_assoc" ->
                    [bgpvpn_db EXCEPT ![pending[1].id].networks =
                         @ \ {pending[1].network_id}]
             [] pending[1].op = "delete_router_assoc" ->
                    [bgpvpn_db EXCEPT ![pending[1].id].routers =
                         @ \ {pending[1].router_id}]
             [] OTHER -> bgpvpn_db
    /\ ports' = IF pending[1].op = "router_interface_deleted"
                THEN ports \ {<<pending[1].router_id, pending[1].network_id>>}
                ELSE ports
    /\ Commit(None, pending[1].op, pending[1].id, pending[1].network_id,
              pending[1].router_id,
              pending[1].op = "router_interface_deleted",
              clear_networks(Context, pending[1].clear, {}))
    /\ pending' = None
    /\ UNCHANGED <<deleted, switches, events, txn>>

\* SpecRace: one BGPVPN, one network, one router; the events one at a time,
\* and a clearing handler overlapped by writing handlers
InitRace == InitOver({1}, {1})

NextRace ==
    \/ /\ events < MaxRaceEvents
       /\ events' = events + 1
       /\ pending = None
       /\ StepOver({1}, {1}, {1})
       /\ UNCHANGED <<txn, pending>>
    \/ /\ events < MaxRaceEvents
       /\ events' = events + 1
       /\ pending # None
       /\ \/ CreateNetAssoc(1, 1, {})
          \/ AttachInterface(1, 1, {})
       /\ UNCHANGED <<txn, pending>>
    \/ /\ events < MaxRaceEvents
       /\ events' = events + 1
       /\ \/ DeleteNetAssocChecks(1, 1)
          \/ DeleteRouterAssocChecks(1, 1, 1)
          \/ DetachInterfaceChecks(1, 1)
    \/ PendingActs

SpecRace == InitRace /\ [][NextRace]_vars

\* C14: overlapping events are safe: when a handler that checks and then
\* clears is overlapped by a handler that writes onto the same network, its
\* clear does not leave a network that has an effective BGPVPN without its
\* EVPN keys.
C14_OverlappingEventsSafe ==
    [][(pending # None /\ pending' = None)
       => \A n \in Networks :
              (DOMAIN Evpn(n) # {} /\ (DOMAIN Evpn(n))' = {})
              => (DirectBgpvpns(n) \cup L3RouterBgpvpns(n))' = {}]_vars

\* the context of a second delivery: the NB database as the first left it
Again(c) ==
    [Context EXCEPT !.external_ids = c.external_ids, !.origin = c.origin]

\* the handler H, run again on what its first run c1 left, leaves the
\* external_ids as they are
SameBags(c1, H(_)) == H(Again(c1)).external_ids = c1.external_ids

\* C15: redelivery is idempotent: with the BGPVPN rows and the ports as they
\* are, every handler run a second time right after its first run leaves
\* the external_ids of every network as the first run left them.
C15_RedeliveryIdempotent ==
    /\ \A id \in DOMAIN bgpvpn_db :
        /\ \A n \in bgpvpn_db[id].networks :
            /\ SameBags(
                   create_net_assoc_postcommit(
                       Context, [bgpvpn_id |-> id, network_id |-> n], {}),
                   LAMBDA c : create_net_assoc_postcommit(
                       c, [bgpvpn_id |-> id, network_id |-> n], {}))
            /\ SameBags(
                   delete_net_assoc_precommit(
                       Context, [bgpvpn_id |-> id, network_id |-> n], {}),
                   LAMBDA c : delete_net_assoc_precommit(
                       c, [bgpvpn_id |-> id, network_id |-> n], {}))
        /\ \A r \in bgpvpn_db[id].routers :
            /\ SameBags(
                   create_router_assoc_postcommit(
                       Context, [bgpvpn_id |-> id, router_id |-> r],
                       SortedList(Networks), {}),
                   LAMBDA c : create_router_assoc_postcommit(
                       c, [bgpvpn_id |-> id, router_id |-> r],
                       SortedList(Networks), {}))
            /\ SameBags(
                   update_router_assoc_postcommit(
                       Context, [bgpvpn_id |-> id, router_id |-> r],
                       SortedList(Networks), {}),
                   LAMBDA c : update_router_assoc_postcommit(
                       c, [bgpvpn_id |-> id, router_id |-> r],
                       SortedList(Networks), {}))
            /\ SameBags(
                   delete_router_assoc_precommit(
                       Context, [bgpvpn_id |-> id, router_id |-> r],
                       SortedList(Networks), {}),
                   LAMBDA c : delete_router_assoc_precommit(
                       c, [bgpvpn_id |-> id, router_id |-> r],
                       SortedList(Networks), {}))
        /\ \A attrs \in ValidInputs :
            SameBags(
                update_bgpvpn_postcommit(
                    Context,
                    MakeBgpvpn(id, attrs, bgpvpn_db[id].networks,
                               bgpvpn_db[id].routers),
                    bgpvpn_db[id], SortedList(Networks), {}),
                LAMBDA c : update_bgpvpn_postcommit(
                    c,
                    MakeBgpvpn(id, attrs, bgpvpn_db[id].networks,
                               bgpvpn_db[id].routers),
                    bgpvpn_db[id], SortedList(Networks), {}))
        /\ SameBags(
               delete_bgpvpn_precommit(Context, bgpvpn_db[id],
                                       SortedList(Networks), {}),
               LAMBDA c : delete_bgpvpn_precommit(
                   c, bgpvpn_db[id], SortedList(Networks), {}))
    /\ \A p \in ports :
        /\ SameBags(
               on_router_interface_created(Context, p[1], p[2], {}),
               LAMBDA c : on_router_interface_created(c, p[1], p[2], {}))
        /\ SameBags(
               on_router_interface_deleted(Context, p[1], p[2], {}),
               LAMBDA c : on_router_interface_deleted(c, p[1], p[2], {}))

\* a BGPVPN delete whose redelivery clears again the network it has cleared
\* of several keys
C15_Witness ==
    /\ last.op = "delete_bgpvpn"
    /\ last.err # ""
    /\ last.id \in DOMAIN bgpvpn_db
    /\ \E n \in bgpvpn_db[last.id].networks :
           /\ n \in switches
           /\ Cardinality(DOMAIN Evpn(n)) >= 2
    /\ delete_bgpvpn_precommit(Context, bgpvpn_db[last.id],
                               SortedList(Networks), {}).txns > 0

\* ------------------------------------------------------------------------
\* OVNClient.get_logical_switch_evpn_config
\* ------------------------------------------------------------------------
\* d.get(k, default)
DictGet(d, k, default) == IF k \in DOMAIN d THEN d[k] ELSE default

\* int(s) raises ValueError unless s is a number: here, a string of digits
IsDigits(s) ==
    s # <<>> /\ \A i \in 1..Len(s) : \E d \in 0..9 : s[i] = DigitChar(d)

\* int(s) of a string of digits
RECURSIVE StrToInt(_)
StrToInt(s) ==
    IF s = <<>> THEN 0
    ELSE StrToInt(SubSeq(s, 1, Len(s) - 1)) * 10 + (CHOOSE d \in 0..9 : DigitChar(d) = s[Len(s)])

\* json.loads: the index of the quote that closes the string opened at s[1],
\* 0 when the text ends before it
RECURSIVE ClosingQuote(_, _)
ClosingQuote(s, i) ==
    IF i > Len(s) THEN 0
    ELSE IF s[i] = "\\" THEN ClosingQuote(s, i + 2)
    ELSE IF s[i] = "\"" THEN i
    ELSE ClosingQuote(s, i + 1)

\* a json.loads that leaves the escapes in place
JsonUnescape_none(s) == s

\* json.loads: the text between the quotes, its escapes undone
RECURSIVE JsonUnescape(_)
JsonUnescape(s) ==
    IF s = <<>> THEN <<>>
    ELSE IF Head(s) = "\\"
    THEN <<s[2]>> \o JsonUnescape(SubSeq(s, 3, Len(s)))
    ELSE <<Head(s)>> \o JsonUnescape(Tail(s))

\* json.loads: the text after the string that ends at s[i] and its separator
AfterItem(s, i) ==
    IF i + 1 <= Len(s) /\ s[i + 1] = ","
    THEN IF i + 2 <= Len(s) /\ s[i + 2] = " "
         THEN SubSeq(s, i + 3, Len(s))
         ELSE SubSeq(s, i + 2, Len(s))
    ELSE SubSeq(s, i + 1, Len(s))

\* json.loads: the text between the brackets is a list of strings
RECURSIVE IsJsonItems(_)
IsJsonItems(s) ==
    /\ Len(s) >= 2
    /\ s[1] = "\""
    /\ ClosingQuote(s, 2) # 0
    /\ \/ ClosingQuote(s, 2) = Len(s)
       \/ /\ ClosingQuote(s, 2) + 1 < Len(s)
          /\ s[ClosingQuote(s, 2) + 1] = ","
          /\ IsJsonItems(AfterItem(s, ClosingQuote(s, 2)))

\* json.loads raises JSONDecodeError unless the text is JSON: here, a list
\* of strings
IsJsonList(s) ==
    /\ Len(s) >= 2
    /\ s[1] = "[" /\ s[Len(s)] = "]"
    /\ Len(s) = 2 \/ IsJsonItems(SubSeq(s, 2, Len(s) - 1))

\* json.loads: the strings of the text between the brackets
RECURSIVE JsonLoadItems(_)
JsonLoadItems(s) ==
    IF s = <<>> THEN <<>>
    ELSE <<JsonUnescape(SubSeq(s, 2, ClosingQuote(s, 2) - 1))>>
         \o JsonLoadItems(AfterItem(s, ClosingQuote(s, 2)))

\* json.loads of the text of a list of strings
JsonLoads(s) == JsonLoadItems(SubSeq(s, 2, Len(s) - 1))

\* the config dict made of external_ids, the first statement innermost
parse_evpn_config(ext) ==
    PutIf(OVN_EVPN_LOCAL_PREF_EXT_ID_KEY \in DOMAIN ext,
      PutIf(OVN_EVPN_AS_EXT_ID_KEY \in DOMAIN ext,
        PutIf(OVN_EVPN_RD_EXT_ID_KEY \in DOMAIN ext,
          PutIf(OVN_EVPN_ERT_EXT_ID_KEY \in DOMAIN ext,
            PutIf(OVN_EVPN_IRT_EXT_ID_KEY \in DOMAIN ext,
              PutIf(OVN_EVPN_RT_EXT_ID_KEY \in DOMAIN ext,
                DictSet(
                  DictSet(EmptyDict, "type",
                          DictGet(ext, OVN_EVPN_TYPE_EXT_ID_KEY, BGPVPN_L3)),
                  "vni", StrToInt(ext[OVN_EVPN_VNI_EXT_ID_KEY])),
                "route_targets", JsonLoads(ext[OVN_EVPN_RT_EXT_ID_KEY])),
              "import_targets", JsonLoads(ext[OVN_EVPN_IRT_EXT_ID_KEY])),
            "export_targets", JsonLoads(ext[OVN_EVPN_ERT_EXT_ID_KEY])),
          "route_distinguishers", JsonLoads(ext[OVN_EVPN_RD_EXT_ID_KEY])),
        "bgp_as", ext[OVN_EVPN_AS_EXT_ID_KEY]),
      "local_pref", StrToInt(ext[OVN_EVPN_LOCAL_PREF_EXT_ID_KEY]))

\* the exception the statements that make the config raise, "" when none:
\* int() of the vni, json.loads of each list present, int() of local_pref
ParseError(ext) ==
    IF ~IsDigits(ext[OVN_EVPN_VNI_EXT_ID_KEY]) THEN "ValueError"
    ELSE IF \E k \in {OVN_EVPN_RT_EXT_ID_KEY, OVN_EVPN_IRT_EXT_ID_KEY,
                      OVN_EVPN_ERT_EXT_ID_KEY, OVN_EVPN_RD_EXT_ID_KEY}
                     \cap DOMAIN ext : ~IsJsonList(ext[k])
    THEN "JSONDecodeError"
    ELSE IF /\ OVN_EVPN_LOCAL_PREF_EXT_ID_KEY \in DOMAIN ext
            /\ ~IsDigits(ext[OVN_EVPN_LOCAL_PREF_EXT_ID_KEY])
    THEN "ValueError"
    ELSE ""

\* OVNClient.get_logical_switch_evpn_config: what it returns (value: None or
\* the config) or the exception it raises
get_logical_switch_evpn_config(network_id) ==
    IF ~get_logical_switch(network_id)
           \/ OVN_EVPN_VNI_EXT_ID_KEY \notin DOMAIN external_ids[network_id]
    THEN [raised |-> "", value |-> None]
    ELSE IF ParseError(external_ids[network_id]) # ""
    THEN [raised |-> ParseError(external_ids[network_id]), value |-> None]
    ELSE [raised |-> "",
          value |-> Some(parse_evpn_config(external_ids[network_id]))]

\* ------------------------------------------------------------------------
\* SpecCodec: the client's build, write, clear and read on one network, for
\* one BGPVPN of any attributes
\* ------------------------------------------------------------------------
RT2 == <<"7", ":", "2">>

CodecInputs ==
    [name : {"a"}, type : {BGPVPN_L2, BGPVPN_L3},
     vni : {Some(7), Some(4096)},
     route_targets : {<<>>, <<RT1>>, <<RT1, RT2>>, <<<<"x">>, RT1>>,
                      <<<<"6", ":", "5", ":", "1">>>>},
     import_targets : {<<>>, <<RT2>>},
     export_targets : {<<>>, <<RT1, RT2>>},
     route_distinguishers : {<<>>, <<RT1>>, <<<<"a", "\"", "\\", "b">>>>},
     local_pref : {None, Some(0), Some(100)}]

\* a BGPVPN associated with network 1, whose Logical_Switch has appeared
\* since and holds no EVPN key yet
InitCodec ==
    /\ bgpvpn_db \in {DictSet(EmptyDict, 1, MakeBgpvpn(1, attrs, {1}, {})) :
                         attrs \in CodecInputs}
    /\ deleted = {}
    /\ ports = {}
    /\ switches = {1}
    /\ external_ids = [n \in Networks |-> NeutronIds]
    /\ origin = [n \in Networks |-> EmptyDict]
    /\ last = NoEvent
    /\ events = 0
    /\ txn = None
    /\ pending = None

\* update_logical_switch_evpn_config(context, network_id, bgpvpn)
CodecWrite(network_id, id) ==
    /\ Commit(None, "write", id, network_id, 0, FALSE,
              update_logical_switch_evpn_config(Context, network_id,
                                                get_bgpvpn(id), {}))
    /\ UNCHANGED <<bgpvpn_db, deleted, ports, switches, events, txn, pending>>

\* clear_logical_switch_evpn_config(context, network_id)
CodecClear(network_id) ==
    /\ Commit(None, "clear", 0, network_id, 0, FALSE,
              clear_logical_switch_evpn_config(Context, network_id, {}))
    /\ UNCHANGED <<bgpvpn_db, deleted, ports, switches, events, txn, pending>>

\* get_logical_switch_evpn_config(context, network_id): last.request is
\* what it returned
CodecRead(network_id) ==
    /\ last' = [NoEvent EXCEPT
                   !.op = "read", !.network_id = network_id,
                   !.request = get_logical_switch_evpn_config(network_id).value,
                   !.err = get_logical_switch_evpn_config(network_id).raised,
                   !.lookups = 1]
    /\ UNCHANGED <<bgpvpn_db, deleted, ports, switches, external_ids, origin,
                   events, txn, pending>>

\* the attributes an update gives the BGPVPN
CodecUpdateInputs ==
    {a \in CodecInputs :
        /\ a.type = BGPVPN_L3 /\ a.vni = Some(7)
        /\ a.route_targets \in {<<>>, <<RT1, RT2>>}
        /\ a.import_targets = <<>> /\ a.export_targets = <<>>
        /\ a.route_distinguishers = <<>>
        /\ a.local_pref \in {None, Some(0)}}

NextCodec ==
    \/ CodecWrite(1, 1)
    \/ CodecClear(1)
    \/ CodecRead(1)
    \/ \E attrs \in CodecUpdateInputs :
           /\ events < MaxCodecUpdates
           /\ events' = events + 1
           /\ UpdateBgpvpn(1, attrs, SortedList(Networks), {})
           /\ UNCHANGED <<txn, pending>>

SpecCodec == InitCodec /\ [][NextCodec]_vars


\* C16: a clear followed by a read finds none of the keys of
\* get_evpn_external_ids_keys, whatever the external_ids held before, and
\* the read returns None; every key build_evpn_external_ids emits is one of
\* get_evpn_external_ids_keys; the other keys of the Logical_Switch are kept;
\* a second clear changes nothing and raises nothing.
C16_ClearRemovesEveryKey ==
    [][/\ \A b \in DOMAIN bgpvpn_db :
              DOMAIN build_evpn_external_ids(bgpvpn_db[b])
                  \subseteq get_evpn_external_ids_keys
       /\ last'.op = "clear" =>
              /\ last'.err = ""
              /\ (DOMAIN external_ids'[1]) \cap get_evpn_external_ids_keys = {}
              /\ external_ids'[1]
                     = DictWithout(external_ids[1], get_evpn_external_ids_keys)
              /\ (get_logical_switch_evpn_config(1))'
                     = [raised |-> "", value |-> None]
              /\ last.op = "clear" => external_ids' = external_ids]_vars

C16_Witness ==
    /\ last.op = "clear"
    /\ last.txns = 1
    /\ last.err = ""
    /\ events = 1
    /\ Cardinality(DOMAIN build_evpn_external_ids(bgpvpn_db[1])) = 5
    /\ DOMAIN external_ids[1] = DOMAIN NeutronIds


\* what a config read back keeps of the BGPVPN it was built from
RoundTrip(bgpvpn, config) ==
    /\ config["type"] = bgpvpn.type
    /\ config["vni"] = bgpvpn.vni[1]
    /\ \A a \in {"route_targets", "import_targets", "export_targets",
                 "route_distinguishers"} :
           IF bgpvpn[a] # <<>>
           THEN a \in DOMAIN config /\ config[a] = bgpvpn[a]
           ELSE a \notin DOMAIN config
    /\ IF bgpvpn.local_pref # None
       THEN /\ "local_pref" \in DOMAIN config
            /\ config["local_pref"] = bgpvpn.local_pref[1]
       ELSE "local_pref" \notin DOMAIN config

\* C17: for every valid BGPVPN b (type L2 or L3, vni set), reading back what
\* build_evpn_external_ids(b) wrote gives the type, the vni as an integer,
\* every non-empty sequence attribute with the same elements in the same
\* order, local_pref when it is not null, and no entry for an empty sequence
\* or a null local_pref; a read of a Logical_Switch that holds exactly the
\* build returns that config.
C17_BuildParseRoundTrip ==
    \A id \in DOMAIN bgpvpn_db :
        /\ ParseError(build_evpn_external_ids(bgpvpn_db[id])) = ""
        /\ RoundTrip(bgpvpn_db[id],
                     parse_evpn_config(build_evpn_external_ids(bgpvpn_db[id])))
        /\ (last.op = "read"
              /\ Evpn(1) = build_evpn_external_ids(bgpvpn_db[id]))
               => /\ last.err = ""
                  /\ last.request # None
                  /\ RoundTrip(bgpvpn_db[id], last.request[1])

C17_Witness ==
    /\ last.op = "read"
    /\ Evpn(1) = build_evpn_external_ids(bgpvpn_db[1])
    /\ bgpvpn_db[1].type = BGPVPN_L2
    /\ bgpvpn_db[1].vni = Some(4096)
    /\ bgpvpn_db[1].route_targets = <<RT1, RT2>>
    /\ bgpvpn_db[1].import_targets = <<RT2>>
    /\ bgpvpn_db[1].export_targets = <<>>
    /\ bgpvpn_db[1].route_distinguishers = <<<<"a", "\"", "\\", "b">>>>
    /\ bgpvpn_db[1].local_pref = Some(0)
    /\ last.request[1]["vni"] = 4096
    /\ last.request[1]["route_targets"][2] = RT2


\* the bgp_as entry of the external_ids e built from bgpvpn
BgpAsRule(bgpvpn, e) ==
    /\ OVN_EVPN_AS_EXT_ID_KEY \in DOMAIN e
           <=> /\ bgpvpn.route_targets # <<>>
               /\ \E i \in 1..Len(bgpvpn.route_targets[1]) :
                      bgpvpn.route_targets[1][i] = ":"
    /\ OVN_EVPN_AS_EXT_ID_KEY \in DOMAIN e
           => \E i \in 1..Len(bgpvpn.route_targets[1]) :
                  /\ bgpvpn.route_targets[1][i] = ":"
                  /\ \A j \in 1..(i - 1) : bgpvpn.route_targets[1][j] # ":"
                  /\ e[OVN_EVPN_AS_EXT_ID_KEY]
                         = SubSeq(bgpvpn.route_targets[1], 1, i - 1)

\* C18: build_evpn_external_ids emits bgp_as exactly when route_targets is
\* not empty and its first element contains ':', and the value is the part
\* of that element before its first ':'; the later route targets have no
\* influence, and a first element without ':' gives no bgp_as whatever
\* follows it; a write puts that value on the Logical_Switch.
C18_BgpAsFromFirstRouteTarget ==
    \A id \in DOMAIN bgpvpn_db :
        /\ BgpAsRule(bgpvpn_db[id], build_evpn_external_ids(bgpvpn_db[id]))
        /\ bgpvpn_db[id].route_targets # <<>> =>
               DictOnly(build_evpn_external_ids(bgpvpn_db[id]),
                        {OVN_EVPN_AS_EXT_ID_KEY})
                   = DictOnly(build_evpn_external_ids(
                                  [bgpvpn_db[id] EXCEPT !.route_targets =
                                       <<bgpvpn_db[id].route_targets[1]>>]),
                              {OVN_EVPN_AS_EXT_ID_KEY})
        /\ (last.op = "write" /\ last.txns = 1 /\ events = 0) =>
               BgpAsRule(bgpvpn_db[id], external_ids[1])

C18_Witness ==
    /\ last.op = "write"
    /\ last.txns = 1
    /\ events = 0
    /\ bgpvpn_db[1].route_targets = <<<<"x">>, RT1>>
    /\ OVN_EVPN_RT_EXT_ID_KEY \in DOMAIN external_ids[1]
    /\ OVN_EVPN_AS_EXT_ID_KEY \notin DOMAIN external_ids[1]


\* the keys build_evpn_external_ids is to emit for bgpvpn, bgp_as apart
BuildKeys(bgpvpn) ==
    {OVN_EVPN_TYPE_EXT_ID_KEY, OVN_EVPN_VNI_EXT_ID_KEY}
        \cup {k \in {OVN_EVPN_RT_EXT_ID_KEY, OVN_EVPN_IRT_EXT_ID_KEY,
                     OVN_EVPN_ERT_EXT_ID_KEY, OVN_EVPN_RD_EXT_ID_KEY} :
                 bgpvpn[k] # <<>>}
        \cup (IF bgpvpn.local_pref # None
              THEN {OVN_EVPN_LOCAL_PREF_EXT_ID_KEY} ELSE {})

\* C19: build_evpn_external_ids always emits type and vni, emits
\* route_targets, import_targets, export_targets and route_distinguishers
\* exactly when the attribute is not empty, emits local_pref exactly when it
\* is not null (a local_pref of 0 is emitted, as "0"), and emits no other key
\* but bgp_as; a write onto a Logical_Switch without EVPN keys leaves exactly
\* these keys.
C19_BuildEmitsExactlySetAttributes ==
    \A id \in DOMAIN bgpvpn_db :
        /\ (DOMAIN build_evpn_external_ids(bgpvpn_db[id]))
               \ {OVN_EVPN_AS_EXT_ID_KEY} = BuildKeys(bgpvpn_db[id])
        /\ bgpvpn_db[id].local_pref = Some(0) =>
               build_evpn_external_ids(bgpvpn_db[id])
                   [OVN_EVPN_LOCAL_PREF_EXT_ID_KEY] = <<"0">>
        /\ (last.op = "write" /\ last.txns = 1 /\ events = 0) =>
               (DOMAIN Evpn(1)) \ {OVN_EVPN_AS_EXT_ID_KEY}
                   = BuildKeys(bgpvpn_db[id])

C19_Witness ==
    /\ last.op = "write"
    /\ last.txns = 1
    /\ events = 0
    /\ bgpvpn_db[1].local_pref = Some(0)
    /\ bgpvpn_db[1].route_targets = <<>>
    /\ bgpvpn_db[1].import_targets # <<>>
    /\ bgpvpn_db[1].route_distinguishers = <<>>
    /\ external_ids[1][OVN_EVPN_LOCAL_PREF_EXT_ID_KEY] = <<"0">>
    /\ OVN_EVPN_RD_EXT_ID_KEY \notin DOMAIN external_ids[1]


\* C20: the type of a BGPVPN never changes: update_bgpvpn_precommit rejects
\* every new snapshot whose type differs from the type of the old one, so
\* that a BGPVPN of type L3 with a router association keeps its type.
C20_TypeImmutable ==
    [][/\ (/\ last'.op \in {"update_bgpvpn_precommit",
                            "update_bgpvpn_postcommit"}
           /\ last'.id \in DOMAIN bgpvpn_db
           /\ last'.request[1].type # bgpvpn_db[last'.id].type)
              => /\ last'.op = "update_bgpvpn_precommit"
                 /\ last'.err # ""
                 /\ bgpvpn_db' = bgpvpn_db
       /\ \A id \in (DOMAIN bgpvpn_db) \cap (DOMAIN bgpvpn_db') :
              (bgpvpn_db[id].routers # {} /\ bgpvpn_db[id].type = BGPVPN_L3)
                  => bgpvpn_db'[id].type = BGPVPN_L3]_vars


\* C21: delete_net_assoc_precommit calls clear for the network exactly when
\* no router with an interface on the network has a BGPVPN: the clear then
\* removes every EVPN key of an existing Logical_Switch (or changes nothing
\* when its transaction aborts); otherwise the handler makes no client call
\* and every external_ids is exactly as before.
C21_DeleteNetAssocClearsUnlessRouter ==
    [][last'.op = "delete_net_assoc" =>
          IF RouterBgpvpns(last'.network_id) = {}
          THEN /\ last'.lookups = 1
               /\ last'.txns = 1 <=> last'.network_id \in switches
               /\ last'.err = "" =>
                      external_ids' =
                          [external_ids EXCEPT ![last'.network_id] =
                              DictWithout(@, get_evpn_external_ids_keys)]
               /\ last'.err # "" => external_ids' = external_ids
          ELSE /\ last'.lookups = 0
               /\ last'.txns = 0
               /\ last'.err = ""
               /\ external_ids' = external_ids]_vars

C21_Witness ==
    /\ last.op = "delete_net_assoc"
    /\ last.err = ""
    /\ last.lookups = 0
    /\ RouterBgpvpns(last.network_id) # {}
    /\ DirectBgpvpns(last.network_id) = {}
    /\ DOMAIN Evpn(last.network_id) # {}


\* the external_ids of network_id after a clear that committed
ClearedBag(network_id) ==
    DictWithout(external_ids[network_id], get_evpn_external_ids_keys)

\* the networks a clear on behalf of the routers rtrs is due on: connected to
\* one of them by a router-interface port, and without a direct association
RouterClearDue(rtrs) ==
    {n \in Networks : /\ \E r \in rtrs : <<r, n>> \in ports
                      /\ DirectBgpvpns(n) = {}}

\* C22: delete_router_assoc_precommit, and the routers loop of
\* delete_bgpvpn_precommit, visit every network connected to the router by a
\* router-interface port and clear it if and only if no BGPVPN is directly
\* associated with it; the external_ids of a network with a direct
\* association, and of a network that is not connected, stay as they were.
C22_RouterClearSkipsDirect ==
    [][/\ last'.op = "delete_router_assoc" =>
           /\ \A n \in RouterClearDue({last'.router_id}) :
                  IF last'.err = ""
                  THEN external_ids'[n] = ClearedBag(n)
                  ELSE external_ids'[n] \in {ClearedBag(n), external_ids[n]}
           /\ \A n \in Networks \ RouterClearDue({last'.router_id}) :
                  external_ids'[n] = external_ids[n]
           /\ last'.err = "" =>
                  last'.lookups
                      = Cardinality(RouterClearDue({last'.router_id}))
       /\ (last'.op = "delete_bgpvpn" /\ last'.id \in DOMAIN bgpvpn_db) =>
              \A n \in Networks \ bgpvpn_db[last'.id].networks :
                  IF n \in RouterClearDue(bgpvpn_db[last'.id].routers)
                  THEN IF last'.err = ""
                       THEN external_ids'[n] = ClearedBag(n)
                       ELSE external_ids'[n]
                                \in {ClearedBag(n), external_ids[n]}
                  ELSE external_ids'[n] = external_ids[n]]_vars

C22_Witness ==
    /\ last.op = "delete_router_assoc"
    /\ last.err = ""
    /\ last.lookups = 1
    /\ last.txns = 1
    /\ ports = {<<1, 1>>, <<1, 2>>}
    /\ DirectBgpvpns(1) # {}
    /\ DOMAIN Evpn(1) # {}
    /\ DirectBgpvpns(2) = {}
    /\ DOMAIN Evpn(2) = {}


\* C23: on a router-interface attach, when the router has a BGPVPN (the first
\* of the list when several match) the handler calls write once for the
\* newly connected network, after which an existing Logical_Switch whose
\* transaction committed holds every key and value of the build of that
\* BGPVPN; when the router has no BGPVPN the handler makes no client call;
\* in both cases no other external_ids changes.
C23_AttachWritesRouterBgpvpn ==
    [][last'.op = "router_interface_created" =>
          /\ \A n \in Networks \ {last'.network_id} :
                 external_ids'[n] = external_ids[n]
          /\ IF get_bgpvpns_routers(last'.router_id) = <<>>
             THEN /\ last'.lookups = 0
                  /\ last'.txns = 0
                  /\ external_ids' = external_ids
             ELSE /\ last'.lookups = 1
                  /\ last'.txns = 1 <=> last'.network_id \in switches
                  /\ (last'.txns = 1 /\ last'.logged = "") =>
                         HoldsBuild(
                             external_ids'[last'.network_id],
                             bgpvpn_db[Head(get_bgpvpns_routers(
                                                last'.router_id))])]_vars

C23_Witness ==
    /\ last.op = "router_interface_created"
    /\ last.txns = 1
    /\ last.logged = ""
    /\ Len(get_bgpvpns_routers(last.router_id)) = 2
    /\ HoldsBuild(external_ids[last.network_id], bgpvpn_db[1])
    /\ ~HoldsBuild(external_ids[last.network_id], bgpvpn_db[2])


\* C24: create_net_assoc_postcommit writes the build of the BGPVPN onto the
\* associated network and onto nothing else: the other external_ids are
\* unchanged, the keys of the network that are not EVPN keys are kept, and
\* when the Logical_Switch held no EVPN key before, its EVPN keys afterwards
\* are exactly the build.  A BGPVPN of type L3, vni 5000 and route_targets
\* ["65000:1"] builds exactly type, vni, route_targets and bgp_as.
C24_NetAssocWritesBuild ==
    [][/\ build_evpn_external_ids(
              [type |-> BGPVPN_L3, vni |-> Some(5000),
               route_targets |-> <<<<"6", "5", "0", "0", "0", ":", "1">>>>,
               import_targets |-> <<>>, export_targets |-> <<>>,
               route_distinguishers |-> <<>>, local_pref |-> None])
          = [k \in {"type", "vni", "route_targets", "bgp_as"} |->
                CASE k = "type" -> "L3"
                  [] k = "vni" -> <<"5", "0", "0", "0">>
                  [] k = "route_targets" ->
                         <<"[", "\"", "6", "5", "0", "0", "0", ":", "1",
                           "\"", "]">>
                  [] k = "bgp_as" -> <<"6", "5", "0", "0", "0">>]
       /\ last'.op = "create_net_assoc" =>
              /\ last'.lookups = 1
              /\ last'.txns = 1 <=> last'.network_id \in switches
              /\ \A n \in Networks \ {last'.network_id} :
                     external_ids'[n] = external_ids[n]
              /\ DictWithout(external_ids'[last'.network_id],
                             get_evpn_external_ids_keys)
                     = ClearedBag(last'.network_id)
              /\ (/\ last'.txns = 1
                  /\ last'.err = ""
                  /\ DOMAIN Evpn(last'.network_id) = {})
                     => DictOnly(external_ids'[last'.network_id],
                                 get_evpn_external_ids_keys)
                            = build_evpn_external_ids(bgpvpn_db[last'.id])
      ]_vars

C24_Witness ==
    /\ last.op = "create_net_assoc"
    /\ last.txns = 1
    /\ last.err = ""
    /\ bgpvpn_db[last.id].type = BGPVPN_L3
    /\ bgpvpn_db[last.id].route_targets = <<RT1>>
    /\ Evpn(last.network_id) = build_evpn_external_ids(bgpvpn_db[last.id])
    /\ DOMAIN Evpn(last.network_id)
           = {"type", "vni", "route_targets", "bgp_as"}
    /\ events = 2


\* ------------------------------------------------------------------------
\* SpecPorts: the events of Spec and the port association requests
\* ------------------------------------------------------------------------
NextPorts ==
    /\ events < MaxPortEvents
    /\ events' = events + 1
    /\ \/ StepOver(BgpvpnIds, {1}, {1})
       \/ \E op \in {"create_port_assoc", "update_port_assoc",
                     "delete_port_assoc"}, id \in BgpvpnIds :
              PortAssoc(op, id, 1)
    /\ UNCHANGED <<txn, pending>>

SpecPorts == Init /\ [][NextPorts]_vars

\* the events whose handlers write nothing
PassOps ==
    {"create_bgpvpn", "create_port_assoc", "update_port_assoc",
     "delete_port_assoc"}

\* some network without EVPN keys gets one in this step
FirstWrite ==
    \E n \in Networks :
        /\ DOMAIN Evpn(n) = {}
        /\ (DOMAIN external_ids'[n]) \cap get_evpn_external_ids_keys # {}

\* create_bgpvpn_postcommit, delete_bgpvpn_postcommit and the port
\* association hooks make no client call and change no external_ids: a
\* BGPVPN delete does what its precommit alone does
PassHooksWriteNothing ==
    /\ last'.op \in PassOps =>
           /\ last'.lookups = 0
           /\ last'.txns = 0
           /\ external_ids' = external_ids
    /\ (last'.op = "delete_bgpvpn" /\ last'.id \in DOMAIN bgpvpn_db) =>
           \E abort \in AbortInputs({1}) :
               /\ external_ids'
                      = delete_bgpvpn_precommit(
                            Context, bgpvpn_db[last'.id],
                            SortedList(Networks), abort).external_ids
               /\ last'.lookups
                      = delete_bgpvpn_precommit(
                            Context, bgpvpn_db[last'.id],
                            SortedList(Networks), abort).lookups

KeepsOthers(old, new, keys) ==
    \A k \in (DOMAIN old) \ keys : k \in DOMAIN new /\ new[k] = old[k]

\* C26: a write leaves every key of the Logical_Switch that is not in the map
\* it writes as it was, and adds no key outside that map; a clear leaves
\* every key outside get_evpn_external_ids_keys as it was; both leave the
\* external_ids of every other Logical_Switch unchanged.  (The write is the
\* one call of create_net_assoc_postcommit, the clear the one call of
\* delete_net_assoc_precommit.)
C26_WriteClearFrame ==
    [][/\ last'.op \in {"create_net_assoc", "delete_net_assoc"} =>
              \A n \in Networks \ {last'.network_id} :
                  external_ids'[n] = external_ids[n]
       /\ last'.op = "create_net_assoc" =>
              /\ KeepsOthers(
                     external_ids[last'.network_id],
                     external_ids'[last'.network_id],
                     DOMAIN build_evpn_external_ids(bgpvpn_db[last'.id]))
              /\ (DOMAIN external_ids'[last'.network_id])
                     \subseteq (DOMAIN external_ids[last'.network_id])
                         \cup DOMAIN build_evpn_external_ids(
                                         bgpvpn_db[last'.id])
       /\ last'.op = "delete_net_assoc" =>
              /\ KeepsOthers(external_ids[last'.network_id],
                             external_ids'[last'.network_id],
                             get_evpn_external_ids_keys)
              /\ (DOMAIN external_ids'[last'.network_id])
                     \subseteq DOMAIN external_ids[last'.network_id]]_vars

C26_Witness ==
    /\ last.op = "create_net_assoc"
    /\ last.txns = 1
    /\ last.err = ""
    /\ HoldsBuild(external_ids[last.network_id], bgpvpn_db[last.id])
    /\ OVN_EVPN_RT_EXT_ID_KEY \in DOMAIN external_ids[last.network_id]
    /\ bgpvpn_db[last.id].route_targets = <<>>
    /\ "neutron:network_name" \in DOMAIN external_ids[last.network_id]
    /\ \E m \in Networks \ {last.network_id} : DOMAIN Evpn(m) # {}


\* ------------------------------------------------------------------------
\* SpecParse: get_logical_switch_evpn_config on a Logical_Switch whose
\* external_ids any writer of the NB database may have set
\* ------------------------------------------------------------------------
InitParse ==
    /\ bgpvpn_db = EmptyDict
    /\ deleted = {}
    /\ ports = {}
    /\ switches \in {{}, {1}}
    /\ external_ids \in
           {[n \in Networks |->
                IF n = 1 /\ 1 \in switches
                THEN PutIf(t # None,
                       PutIf(v # None,
                         PutIf(r # None,
                           PutIf(l # None, NeutronIds,
                                 OVN_EVPN_LOCAL_PREF_EXT_ID_KEY, l[1]),
                           OVN_EVPN_RT_EXT_ID_KEY, r[1]),
                         OVN_EVPN_VNI_EXT_ID_KEY, v[1]),
                       OVN_EVPN_TYPE_EXT_ID_KEY, t[1])
                ELSE NeutronIds] :
               t \in {None, Some(BGPVPN_L2), Some(BGPVPN_L3)},
               v \in {None, Some(<<"5", "0">>), Some(<<"a", "b", "c">>),
                      Some(<<"N", "o", "n", "e">>), Some(<<>>)},
               r \in {None, Some(JsonDumps(<<RT1, RT2>>)), Some(RT1),
                      Some(<<"[", "\"", "6", "5", ":", "1", "\"">>),
                      Some(<<"[", "]">>)},
               l \in {None, Some(<<"1", "0", "0">>), Some(<<"x">>)}}
    /\ origin = [n \in Networks |-> EmptyDict]
    /\ last = NoEvent
    /\ events = 0
    /\ txn = None
    /\ pending = None

NextParse ==
    \/ CodecRead(1)
    \/ CodecClear(1)

SpecParse == InitParse /\ [][NextParse]_vars

\* the value of a list key of ext, when present, is JSON
ListsAreJson(ext) ==
    \A k \in {OVN_EVPN_RT_EXT_ID_KEY, OVN_EVPN_IRT_EXT_ID_KEY,
              OVN_EVPN_ERT_EXT_ID_KEY, OVN_EVPN_RD_EXT_ID_KEY}
             \cap DOMAIN ext : IsJsonList(ext[k])

\* C27: a read returns None when the Logical_Switch does not exist or has no
\* vni key; otherwise (local_pref being absent or a number) it raises when
\* the value of a list key is not JSON, and else returns a config whose type
\* is the type key or L3 when that key is missing, and whose vni is the
\* integer of the vni key, or 0 when that value is not an integer.
C27_ParseDefensive ==
    (/\ last.op = "read"
     /\ OVN_EVPN_LOCAL_PREF_EXT_ID_KEY \in DOMAIN external_ids[1]
            => IsDigits(external_ids[1][OVN_EVPN_LOCAL_PREF_EXT_ID_KEY]))
    => IF 1 \notin switches
          \/ OVN_EVPN_VNI_EXT_ID_KEY \notin DOMAIN external_ids[1]
       THEN last.err = "" /\ last.request = None
       ELSE IF ~ListsAreJson(external_ids[1])
       THEN last.err # ""
       ELSE /\ last.err = ""
            /\ last.request # None
            /\ last.request[1]["type"]
                   = DictGet(external_ids[1], OVN_EVPN_TYPE_EXT_ID_KEY,
                             BGPVPN_L3)
            /\ last.request[1]["vni"]
                   = IF IsDigits(external_ids[1][OVN_EVPN_VNI_EXT_ID_KEY])
                     THEN StrToInt(external_ids[1][OVN_EVPN_VNI_EXT_ID_KEY])
                     ELSE 0


\* ------------------------------------------------------------------------
\* bgpvpn_dashboard forms.CommonData: the parameters handle sends to the API
\* ------------------------------------------------------------------------
\* CommonData._del_attributes
del_attributes(attributes, data) == DictWithout(data, attributes)

\* CommonData.handle: the params given to bgpvpn_update or bgpvpn_create
\* (data holds none of the RT_FORMAT_ATTRIBUTES)
handle(action, is_superuser, data) ==
    IF action = "update"
    THEN del_attributes(
             IF is_superuser /\ DictGet(data, "tenant_id", "") # ""
             THEN {"bgpvpn_id", "type", "tenant_id", "vni", "local_pref"}
             ELSE {"bgpvpn_id", "type", "vni", "local_pref"},
             DictUpdate(
                 PutIf(DictGet(data, "local_pref", None) # None,
                       PutIf(DictGet(data, "vni", None) \notin {None, Some(0)},
                             EmptyDict, "vni", data["vni"]),
                       "local_pref", data["local_pref"]),
                 DictWithout(data, {"vni", "local_pref"})))
    ELSE DictUpdate(
             PutIf(DictGet(data, "local_pref", None) # None,
                   PutIf(DictGet(data, "vni", None) \notin {None, Some(0)},
                         EmptyDict, "vni", data["vni"]),
                   "local_pref", data["local_pref"]),
             DictWithout(data, {"vni", "local_pref"}))

\* the form is submitted: last.request is what the user and the form gave
\* and the params sent
Submit(action, is_superuser, data) ==
    /\ last' = [NoEvent EXCEPT
                   !.op = action,
                   !.request = Some([is_superuser |-> is_superuser,
                                     data |-> data,
                                     params |-> handle(action, is_superuser,
                                                       data)])]
    /\ UNCHANGED <<bgpvpn_db, deleted, ports, switches, external_ids, origin,
                   events, txn, pending>>

NextForm ==
    \E action \in {"create", "update"}, is_superuser \in BOOLEAN,
       t \in {None, Some("l2"), Some("l3")},
       o \in {None, Some(""), Some("tenant")},
       v \in {None, Some(None), Some(Some(0)), Some(Some(50))},
       l \in {None, Some(None), Some(Some(0)), Some(Some(100))} :
        Submit(action, is_superuser,
               PutIf(l # None,
                 PutIf(v # None,
                   PutIf(o # None,
                     PutIf(t # None,
                       DictSet(DictSet(EmptyDict, "name", "a"),
                               "bgpvpn_id", 1),
                       "type", t[1]),
                     "tenant_id", o[1]),
                   "vni", v[1]),
                 "local_pref", l[1]))

SpecForm == Init /\ [][NextForm]_vars

\* C28: on an update submitted through the form, bgpvpn_id is never among the
\* params sent; vni, local_pref and type are not among them unless the user
\* is a superuser and tenant_id is given, and in that case every one of them
\* that the form holds with a value is sent.
C28_FormStripsUnlessPrivileged ==
    last.op = "update" =>
        /\ "bgpvpn_id" \notin DOMAIN last.request[1].params
        /\ IF /\ last.request[1].is_superuser
              /\ DictGet(last.request[1].data, "tenant_id", "") # ""
           THEN /\ "type" \in DOMAIN last.request[1].data
                       => "type" \in DOMAIN last.request[1].params
                /\ DictGet(last.request[1].data, "vni", None)
                           \notin {None, Some(0)}
                       => "vni" \in DOMAIN last.request[1].params
                /\ DictGet(last.request[1].data, "local_pref", None) # None
                       => "local_pref" \in DOMAIN last.request[1].params
           ELSE (DOMAIN last.request[1].params)
                    \cap {"vni", "local_pref", "type"} = {}


\* C29: in every reachable state the external_ids of a network hold either
\* no EVPN key, or both type and vni, with type L2 or L3 and vni the decimal
\* string of a vni that is set (never the string of an absent value): no
\* sequence of writes and clears leaves an optional EVPN key without the two
\* required ones.
C29_BagEmptyOrWellFormed ==
    \A n \in Networks :
        DOMAIN Evpn(n) # {} =>
            /\ OVN_EVPN_TYPE_EXT_ID_KEY \in DOMAIN Evpn(n)
            /\ OVN_EVPN_VNI_EXT_ID_KEY \in DOMAIN Evpn(n)
            /\ external_ids[n][OVN_EVPN_TYPE_EXT_ID_KEY]
                   \in {BGPVPN_L2, BGPVPN_L3}
            /\ IsDigits(external_ids[n][OVN_EVPN_VNI_EXT_ID_KEY])
            /\ StrToInt(external_ids[n][OVN_EVPN_VNI_EXT_ID_KEY]) > 0

C29_Witness ==
    /\ last.op = "create_net_assoc"
    /\ last.txns = 1
    /\ last.err = ""
    /\ events >= 4
    /\ deleted # {}
    /\ DOMAIN Evpn(1) = {"type", "vni", "route_targets", "bgp_as"}


\* the networks the event e is to process for bgpvpn, and those of them it
\* reaches only through a router
SeqTargets(e, bgpvpn) ==
    CASE e.op = "update_bgpvpn_postcommit" ->
             bgpvpn.networks
                 \cup {n \in Networks :
                          \E r \in bgpvpn.routers : <<r, n>> \in ports}
      [] e.op \in {"create_router_assoc", "update_router_assoc"} ->
             {n \in Networks : <<e.router_id, n>> \in ports}
      [] e.op = "delete_router_assoc" -> RouterClearDue({e.router_id})
      [] e.op = "delete_bgpvpn" ->
             bgpvpn.networks \cup RouterClearDue(bgpvpn.routers)

\* the external_ids of network n once the event e has processed it
SeqNewBag(e, bgpvpn, n) ==
    IF e.op \in {"delete_router_assoc", "delete_bgpvpn"}
    THEN ClearedBag(n)
    ELSE DictUpdate(external_ids[n], build_evpn_external_ids(bgpvpn))

\* what the event e about bgpvpn, ending in the external_ids ext, did
SeqRule(e, bgpvpn, ext) ==
    /\ \A n \in Networks \ SeqTargets(e, bgpvpn) : ext[n] = external_ids[n]
    /\ e.lookups = 0 => ext = external_ids
    /\ e.txns <= e.lookups
    /\ (e.err = "" /\ e.lookups > 0) =>
           /\ \A n \in SeqTargets(e, bgpvpn) \cap switches :
                  ext[n] = SeqNewBag(e, bgpvpn, n)
           /\ e.txns >= Cardinality(SeqTargets(e, bgpvpn) \cap switches)
    /\ e.err = TransactionError =>
           /\ e.txns = 1 => ext = external_ids
           /\ \E f \in SeqTargets(e, bgpvpn) \cap switches :
                  /\ ext[f] = external_ids[f]
                  /\ \A n \in Networks \ {f} :
                         ext[n] \in {external_ids[n],
                                     SeqNewBag(e, bgpvpn, n)}
                  /\ (/\ e.op \in {"update_bgpvpn_postcommit",
                                   "delete_bgpvpn"}
                      /\ f \in bgpvpn.networks)
                         => \A n \in Networks \ bgpvpn.networks :
                                ext[n] = external_ids[n]

\* C30: an event that targets several networks (update_bgpvpn_postcommit,
\* delete_bgpvpn_precommit, router association create, update and delete)
\* processes them one after the other, one transaction each; when it
\* returns normally every targeted Logical_Switch has its new state; when a
\* transaction aborts the handler raises at once: the networks processed
\* before have their new state, the failing one is unchanged and the later
\* ones are untouched (all of them when the first transaction aborts).
C30_SequentialFailFast ==
    [][(/\ last'.op \in {"update_bgpvpn_postcommit", "delete_bgpvpn",
                         "create_router_assoc", "update_router_assoc",
                         "delete_router_assoc"}
        /\ last'.id \in DOMAIN bgpvpn_db)
          => SeqRule(last',
                     IF last'.id \in DOMAIN bgpvpn_db'
                     THEN bgpvpn_db'[last'.id] ELSE bgpvpn_db[last'.id],
                     external_ids')]_vars

C30_Witness ==
    /\ last.op = "update_bgpvpn_postcommit"
    /\ last.err = TransactionError
    /\ last.txns = 2
    /\ bgpvpn_db[last.id].networks = {1, 2}
    /\ \E n \in {1, 2} :
           /\ HoldsBuild(external_ids[n], bgpvpn_db[last.id])
           /\ ~HoldsBuild(external_ids[3 - n], bgpvpn_db[last.id])
           /\ DOMAIN Evpn(3 - n) # {}


\* C31: when a network has direct associations to two BGPVPNs and its
\* Logical_Switch holds the build of one of them, deleting the network
\* association of the other does not clear the network: after the handler
\* the Logical_Switch still holds the build of the remaining BGPVPN.
C31_DeleteNetAssocKeepsOtherDirect ==
    [][(/\ last'.op = "delete_net_assoc"
        /\ last'.err = ""
        /\ Cardinality(DirectBgpvpns(last'.network_id)) = 2)
          => \A b \in DirectBgpvpns(last'.network_id) \ {last'.id} :
                 HoldsBuild(external_ids[last'.network_id], bgpvpn_db[b])
                     => HoldsBuild(external_ids'[last'.network_id],
                                   bgpvpn_db[b])]_vars

=============================================================================
